---- MODULE Spec2Model ----
(***************************************************************************)
(* The note lifecycle of the notes application: BusinessLogicManager       *)
(* (src/js/businessLogic.js) and the persisted collections it reads and    *)
(* writes in localStorage.  Every workflow method is an async function; a  *)
(* workflow is modelled as a process whose program counter names the step  *)
(* it is about to run, so that the places where it is suspended (user      *)
(* prompts, awaits) are the places where another workflow may run.         *)
(***************************************************************************)
EXTENDS Integers, Sequences, FiniteSets, TLC

VARIABLES
  notes,            \* localStorage "notes": the persisted note collection
  backups,          \* localStorage "note_backups": backupId -> backup record
  currentWorkflow,  \* BusinessLogicManager.currentWorkflow
  workflowHistory,  \* BusinessLogicManager.workflowHistory
  errorLog,         \* ErrorHandlingSystem.errorLog
  now,              \* Date.now()
  wf,               \* the workflow invocations in flight, one per caller
  invocations,      \* number of workflow invocations started so far
  completed,        \* the invocations that have returned or thrown, in order
  templates,        \* templates.json as loaded by the data manager
  categories,       \* categories.json as loaded by the data manager
  autoBackups,      \* localStorage: the timestamps t of the keys auto_backup_<t>
  autoWritten,      \* the timestamps of all auto-backups ever written
  input,            \* the argument of a function applied on its own
  output,           \* its result
  page,             \* the page script: its notes array, its indexes, its prompts
  modalSystem,      \* the CustomModalSystem: its modals and their promises
  errorHandler,     \* the ErrorHandlingSystem: its retry counters and timers
  audioManager      \* the AudioManager, its recorders and its callers

vars == <<notes, backups, currentWorkflow, workflowHistory, errorLog, now, wf,
          invocations, completed, templates, categories, autoBackups,
          autoWritten, input, output, page, modalSystem, errorHandler,
          audioManager>>

\* the objects of the page other than the business logic manager
objects == <<page, modalSystem, errorHandler, audioManager>>

\* what the workflows leave alone
lab == <<autoBackups, autoWritten, input, output, objects>>

\* what the steps of a workflow leave alone
env == <<errorLog, now, invocations, templates, categories, lab>>

-----------------------------------------------------------------------------
(* Bounds of the model *)

\* workflow invocations in one behaviour
MaxOps == 2
\* the clock runs from 0 to MaxNow
MaxNow == 1
\* clock ticks in one calendar day
TicksPerDay == 1
\* distinct outcomes of Math.random().toString(36).substr(2, 9)
NumRand == 2
\* businessRules.note_creation.maxDailyNotes (100 in the code), scaled down
maxDailyNotes == 2
\* the history limit of completeWorkflow (50 in the code), scaled down
MaxHistory == 1

Procs == {1, 2}
Rand == 1..NumRand

-----------------------------------------------------------------------------
(* Values *)

\* JavaScript null for a workflow record and for a note
NoWorkflow == [owner |-> 0, type |-> "none", steps |-> <<>>,
               status |-> "none", error |-> "none"]
NoId == <<-1, 0>>
NoNote == [id |-> NoId]

\* the fallback templates of the data manager: "blank" seeds empty content
FallbackTemplates ==
  { [id |-> "blank",   title |-> "New Note",      content |-> "",
     tags |-> <<"blank">>,   isActive |-> TRUE],
    [id |-> "meeting", title |-> "Meeting Notes", content |-> "agenda",
     tags |-> <<"meeting">>, isActive |-> TRUE] }

NoTemplate == [id |-> "none", title |-> "", content |-> "", tags |-> <<>>,
               isActive |-> FALSE]

Category(c) == [id |-> c, isActive |-> TRUE]
NoCategory == [id |-> "none", isActive |-> FALSE]

\* a note as the code builds it in handleNoteCreation; isProtected and
\* editHistory, which the code leaves undefined there and reads as falsy,
\* are carried as FALSE and the empty sequence
Note(id, title, content, category, tags, t) ==
  [id |-> id, title |-> title, content |-> content, category |-> category,
   tags |-> tags, priority |-> "medium", isPublic |-> FALSE, audio |-> "",
   template |-> "none", createdAt |-> t, lastModified |-> t,
   isProtected |-> FALSE, editHistory |-> <<>>]

\* the collection found in localStorage when the application starts
InitialNotes ==
  << Note(<<0, 1>>, "first", "one", "personal", <<>>, 0),
     [Note(<<0, 2>>, "second", "two", "personal", <<"x">>, 0)
        EXCEPT !.audio = "rec", !.isProtected = TRUE] >>

-----------------------------------------------------------------------------
(* Pure helpers of BusinessLogicManager *)

DayOf(t) == t \div TicksPerDay

Ids(ns) == {ns[i].id : i \in DOMAIN ns}

\* Array.prototype.findIndex(n => n.id === id): first match, 0 for -1
FindIndex(ns, id) ==
  IF \E i \in DOMAIN ns : ns[i].id = id
    THEN CHOOSE i \in DOMAIN ns :
           ns[i].id = id /\ \A j \in 1..(i - 1) : ns[j].id # id
    ELSE 0

RemoveAt(ns, i) == [j \in 1..(Len(ns) - 1) |-> IF j < i THEN ns[j] ELSE ns[j + 1]]

Has(r, f) == f \in DOMAIN r

\* !value for a string-valued field: undefined, null and "" are falsy
Falsy(r, f) == ~Has(r, f) \/ r[f] = ""

\* !s || s.trim().length === 0
Blank(r, f) == Falsy(r, f) \/ r[f] = " "

generateNoteId(t, r) == <<t, r>>

getTodayNoteCount(ns, t) ==
  Cardinality({i \in DOMAIN ns : DayOf(ns[i].createdAt) = DayOf(t)})

-----------------------------------------------------------------------------
(* validateNoteData and validateBusinessRules *)

Priorities == {"low", "medium", "high"}

SelectSeq2(cond, msg) == IF cond THEN <<msg>> ELSE <<>>

\* validationRules.note: title.maxLength, content.maxLength, tags.maxCount,
\* tags.maxLength
titleMaxLength == 200
contentMaxLength == 50000
tagsMaxCount == 10
tagsMaxLength == 30

\* a limit that already refuses a text of exactly max characters: the
\* comparison C13 must tell apart from the code's length > maxLength
TooLongInclusive(s, max) == Len(s) >= max

\* s.length > max
TooLong(s, max) == Len(s) > max

ValidationErrors(d, cats) ==
     SelectSeq2(Blank(d, "title"), "Title is required")
  \o SelectSeq2(~Falsy(d, "title") /\ TooLong(d.title, titleMaxLength),
                "Title too long")
  \o SelectSeq2(Blank(d, "content"), "Content is required")
  \o SelectSeq2(~Falsy(d, "content") /\ TooLong(d.content, contentMaxLength),
                "Content too long")
  \o SelectSeq2(Falsy(d, "category"), "Category is required")
  \o SelectSeq2(~Falsy(d, "category") /\ Category(d.category) \notin cats,
                "Invalid category selected")
  \o SelectSeq2(~Falsy(d, "priority") /\ d.priority \notin Priorities,
                "Invalid priority value")

\* a limit that blocks only above maxDailyNotes: the comparison C7 must
\* tell apart from the code's todayCount >= maxDailyNotes
QuotaExceeded(ns, t) ==
  maxDailyNotes # 0 /\ getTodayNoteCount(ns, t) > maxDailyNotes

\* if (creationRules.maxDailyNotes) { todayCount >= maxDailyNotes }
QuotaReached(ns, t) ==
  maxDailyNotes # 0 /\ getTodayNoteCount(ns, t) >= maxDailyNotes

validateBusinessRules(d, ns, t) ==
     SelectSeq2(QuotaReached(ns, t), "Daily note limit reached")
  \o SelectSeq2(Blank(d, "content"), "Empty content not allowed by business rules")

\* the tag checks push warnings and leave isValid alone
ValidationWarnings(d) ==
  IF ~Has(d, "tags") THEN <<>>
  ELSE LET long == SelectSeq(d.tags,
                             LAMBDA tag : tag # "" /\ TooLong(tag, tagsMaxLength))
       IN     SelectSeq2(Len(d.tags) > tagsMaxCount, "Too many tags")
           \o [i \in DOMAIN long |-> "Tag too long"]

validateNoteData(d, cats, ns, t) ==
  LET errs == ValidationErrors(d, cats)
      viol == validateBusinessRules(d, ns, t)
  IN  [isValid |-> errs = <<>> /\ viol = <<>>,
       errors |-> errs,
       warnings |-> ValidationWarnings(d),
       businessRuleViolations |-> viol]

-----------------------------------------------------------------------------
(* Workflow records and results *)

NewWorkflow(inv, type) ==
  [owner |-> inv, type |-> type, steps |-> <<>>, status |-> "none",
   error |-> "none"]

\* this.currentWorkflow.steps.push({ step, result }); `by` is the invocation
\* whose code pushes the step
PushStep(cw, step, by) ==
  [cw EXCEPT !.steps = Append(@, [step |-> step, by |-> by])]

\* this.workflowHistory.slice(-MaxHistory)
KeepLast(h) ==
  IF Len(h) > MaxHistory THEN SubSeq(h, Len(h) - MaxHistory + 1, Len(h)) ELSE h

\* completeWorkflow without the `if (error)` guard: the error field is set
\* whatever the status
completeWorkflowAlwaysError(cw, hist, status, err) ==
  IF cw = NoWorkflow
    THEN hist
    ELSE KeepLast(Append(hist, [cw EXCEPT !.status = status,
                                          !.error = IF err = "none"
                                                      THEN "undefined"
                                                      ELSE err]))

\* completeWorkflow(status, error): the history afterwards; currentWorkflow
\* is null afterwards in every case
completeWorkflow(cw, hist, status, err) ==
  IF cw = NoWorkflow
    THEN hist
    ELSE KeepLast(Append(hist, [cw EXCEPT !.status = status, !.error = err]))

NoResult == [kind |-> "none", success |-> FALSE, reason |-> "",
             workflow |-> NoWorkflow]
Resolved(ok, reason, w) ==
  [kind |-> "resolved", success |-> ok, reason |-> reason, workflow |-> w]
Rejected(msg) ==
  [kind |-> "rejected", success |-> FALSE, reason |-> msg,
   workflow |-> NoWorkflow]

NoData == [absent |-> TRUE]
NoFile == [valid |-> FALSE, parses |-> FALSE, hasNotes |-> FALSE, notes |-> <<>>]

Idle ==
  [pc |-> "idle", op |-> "none", inv |-> 0,
   opts |-> [templateId |-> "none", categoryId |-> "none", format |-> "none"],
   noteId |-> NoId, data |-> NoData, file |-> NoFile,
   note |-> NoNote, updatedNote |-> NoNote, tmpl |-> NoTemplate,
   cat |-> NoCategory,
   validation |-> [isValid |-> TRUE, errors |-> <<>>, warnings |-> <<>>,
                   businessRuleViolations |-> <<>>],
   backupId |-> <<>>, declined |-> FALSE, startNotes |-> <<>>,
   result |-> NoResult]

\* ErrorHandlingSystem.logError: newest first, at most ErrorLogMax entries
ErrorLogMax == 100
logError(log, msg) ==
  LET l == <<msg>> \o log
  IN  IF Len(l) > ErrorLogMax THEN SubSeq(l, 1, ErrorLogMax) ELSE l

\* {...a, ...b}
Merge(a, b) ==
  [f \in DOMAIN a \cup DOMAIN b |-> IF f \in DOMAIN b THEN b[f] ELSE a[f]]

-----------------------------------------------------------------------------
(* Steps shared by the workflows *)

\* The invocation p ends: its promise is settled with `res`.
Ends(p, w, res) ==
  /\ wf' = [wf EXCEPT ![p] = [w EXCEPT !.pc = "done", !.result = res]]
  /\ completed' = Append(completed, w.inv)

\* A step whose failure is not looked at: its result is pushed and the
\* workflow goes on to the step `next`
StepDoneContinuing(p, w, step, err, next) ==
  IF currentWorkflow = NoWorkflow
    THEN /\ currentWorkflow' = NoWorkflow
         /\ workflowHistory' = workflowHistory
         /\ Ends(p, w, Rejected("TypeError"))
    ELSE /\ currentWorkflow' = PushStep(currentWorkflow, step, w.inv)
         /\ workflowHistory' = workflowHistory
         /\ wf' = [wf EXCEPT ![p] = [w EXCEPT !.pc = next]]
         /\ completed' = completed

\* A step of a workflow that keeps a record: the step has run, its result is
\* pushed on this.currentWorkflow.steps, and the workflow either throws `err`
\* (err = "" for no error) or goes on to the step `next`; w is the
\* invocation with its locals after the step.  Pushing on a null
\* currentWorkflow is a TypeError, caught by the workflow's catch block like
\* any other error: completeWorkflow('error', error); throw error.
StepDone(p, w, step, err, next) ==
  IF currentWorkflow = NoWorkflow
    THEN /\ currentWorkflow' = NoWorkflow
         /\ workflowHistory' = workflowHistory
         /\ Ends(p, w, Rejected("TypeError"))
    ELSE IF err # ""
      THEN /\ currentWorkflow' = NoWorkflow
           /\ workflowHistory' =
                completeWorkflow(PushStep(currentWorkflow, step, w.inv),
                                 workflowHistory, "error", err)
           /\ Ends(p, w, Rejected(err))
      ELSE /\ currentWorkflow' = PushStep(currentWorkflow, step, w.inv)
           /\ workflowHistory' = workflowHistory
           /\ wf' = [wf EXCEPT ![p] = [w EXCEPT !.pc = next]]
           /\ completed' = completed

\* A step that throws before its result is pushed.
StepThrows(p, w, err) ==
  /\ currentWorkflow' = NoWorkflow
  /\ workflowHistory' =
       completeWorkflow(currentWorkflow, workflowHistory, "error", err)
  /\ Ends(p, w, Rejected(err))

\* A step whose result is pushed and that ends the workflow without an
\* error: completeWorkflow(status) and the return of `res`.
StepFinish(p, w, step, status, res) ==
  IF currentWorkflow = NoWorkflow
    THEN /\ currentWorkflow' = NoWorkflow
         /\ workflowHistory' = workflowHistory
         /\ Ends(p, w, Rejected("TypeError"))
    ELSE /\ currentWorkflow' = NoWorkflow
         /\ workflowHistory' =
              completeWorkflow(PushStep(currentWorkflow, step, w.inv),
                               workflowHistory, status, "none")
         /\ Ends(p, w, res)

\* completeWorkflow(status) and the return of `res`, with no step to push.
Finish(p, w, status, res) ==
  /\ currentWorkflow' = NoWorkflow
  /\ workflowHistory' =
       completeWorkflow(currentWorkflow, workflowHistory, status, "none")
  /\ Ends(p, w, res)

\* A workflow is invoked: its record replaces this.currentWorkflow.
Starts(p, w, type) ==
  /\ wf[p].pc = "idle"
  /\ invocations < MaxOps
  /\ wf' = [wf EXCEPT ![p] = [w EXCEPT !.inv = invocations + 1,
                                       !.startNotes = notes]]
  /\ currentWorkflow' = NewWorkflow(invocations + 1, type)
  /\ invocations' = invocations + 1
  /\ UNCHANGED <<notes, backups, workflowHistory, errorLog, now, completed,
                 templates, categories, lab>>

\* localStorage.setItem either stores the value or throws (quota exceeded)
WriteOutcomes == {"ok", "write_fails"}

-----------------------------------------------------------------------------
(* startNoteCreationWorkflow(options) *)

TemplateIds == {"none", "meeting"}
CategoryIds == {"none", "personal"}

StartCreate(p) ==
  \E tid \in TemplateIds, cid \in CategoryIds :
    Starts(p, [Idle EXCEPT !.pc = "template_selection", !.op = "create",
                           !.opts = [templateId |-> tid, categoryId |-> cid,
                                     format |-> "none"]],
           "note_creation")

\* handleTemplateSelection: a preselected template that exists is taken;
\* with no active template the result is none_available; otherwise the user
\* chooses, and a dismissed choice (choice = "none") throws
TemplateSelection(p) ==
  /\ wf[p].pc = "template_selection"
  /\ LET tid == wf[p].opts.templateId
         pre == {t \in templates : t.id = tid}
         active == {t \in templates : t.isActive}
     IN  \E choice \in {t.id : t \in active} \cup {"none"} :
           LET cancelled == pre = {} /\ active # {} /\ choice = "none"
               tmpl == IF pre # {} THEN CHOOSE t \in pre : TRUE
                       ELSE IF active = {} \/ choice = "none" THEN NoTemplate
                       ELSE CHOOSE t \in active : t.id = choice
           IN  IF cancelled
                 THEN StepThrows(p, [wf[p] EXCEPT !.declined = TRUE],
                                 "Template selection cancelled")
                 ELSE StepDone(p, [wf[p] EXCEPT !.tmpl = tmpl],
                               "template_selection", "", "category_selection")
  /\ UNCHANGED <<notes, backups, env>>

\* handleCategorySelection: a preselected category that exists is taken; no
\* active category throws; a single active category is taken; otherwise the
\* user chooses, and a dismissed choice throws
CategorySelection(p) ==
  /\ wf[p].pc = "category_selection"
  /\ LET cid == wf[p].opts.categoryId
         pre == {c \in categories : c.id = cid}
         active == {c \in categories : c.isActive}
     IN  \E choice \in {c.id : c \in active} \cup {"none"} :
           LET asked == pre = {} /\ Cardinality(active) > 1
               cat == IF pre # {} THEN CHOOSE c \in pre : TRUE
                      ELSE IF Cardinality(active) = 1 THEN CHOOSE c \in active : TRUE
                      ELSE IF active = {} \/ choice = "none" THEN NoCategory
                      ELSE CHOOSE c \in active : c.id = choice
           IN  IF pre = {} /\ active = {}
                 THEN StepThrows(p, wf[p], "No categories available")
               ELSE IF asked /\ choice = "none"
                 THEN StepThrows(p, [wf[p] EXCEPT !.declined = TRUE],
                                 "Category selection cancelled")
               ELSE StepDone(p, [wf[p] EXCEPT !.cat = cat],
                             "category_selection", "", "note_creation")
  /\ UNCHANGED <<notes, backups, env>>

\* handleNoteCreation(template, category)
handleNoteCreation(tmpl, cat, id, t) ==
  IF tmpl = NoTemplate
    THEN Note(id, "New Note", "", cat.id, <<>>, t)
    ELSE [Note(id, tmpl.title, tmpl.content, cat.id, tmpl.tags, t)
            EXCEPT !.template = tmpl.id]

NoteCreation(p) ==
  /\ wf[p].pc = "note_creation"
  /\ \E r \in Rand :
       StepDone(p, [wf[p] EXCEPT !.note =
                      handleNoteCreation(wf[p].tmpl, wf[p].cat,
                                         generateNoteId(now, r), now)],
                "note_creation", "", "validation")
  /\ UNCHANGED <<notes, backups, env>>

Validation(p) ==
  /\ wf[p].pc = "validation"
  /\ LET v == validateNoteData(wf[p].note, categories, notes, now)
     IN  StepDone(p, [wf[p] EXCEPT !.validation = v], "validation",
                  IF v.isValid THEN "" ELSE "Validation failed", "save")
  /\ UNCHANGED <<notes, backups, env>>

\* saveNote: read the collection, push the note, write it back, then
\* trackNoteCreated (a write of app_stats); any failure is rethrown as
\* "Failed to save note"
SaveOutcomes == {"ok", "write_fails", "track_fails"}

saveNote(ns, noteData) == Append(ns, noteData)

Save(p) ==
  /\ wf[p].pc = "save"
  /\ \E o \in SaveOutcomes :
       /\ notes' = IF o = "write_fails" THEN notes ELSE saveNote(notes, wf[p].note)
       /\ IF o = "ok"
            THEN StepDone(p, wf[p], "save", "", "post_creation")
            ELSE StepThrows(p, wf[p], "Failed to save note")
  /\ UNCHANGED <<backups, env>>

\* handlePostCreationActions (the toast, the achievements write; the
\* settings are the fallback ones, which have no features.backup, so that
\* performAutoBackup writes nothing), then completeWorkflow('success') and
\* the return; the result's workflow field is this.currentWorkflow as read
\* after completeWorkflow has reset it
PostCreation(p) ==
  /\ wf[p].pc = "post_creation"
  /\ \E o \in WriteOutcomes :
       IF o = "ok"
         THEN Finish(p, wf[p], "success", Resolved(TRUE, "", currentWorkflow'))
         ELSE StepThrows(p, wf[p], "Post-creation action failed")
  /\ UNCHANGED <<notes, backups, env>>

-----------------------------------------------------------------------------
(* Helpers of the edit and delete workflows *)

\* loadNoteForEditing: notes.find(n => n.id === noteId), NoNote when absent
loadNoteForEditing(ns, id) ==
  IF FindIndex(ns, id) = 0 THEN NoNote ELSE ns[FindIndex(ns, id)]

\* the ids a caller may pass: those of the collection and one that is absent
MissingId == <<9, 9>>
NoteIdArgs == Ids(notes) \cup {MissingId}

\* backups[backupId] = { note, timestamp, type }: a write under an existing
\* key replaces the entry
BackupKey(prefix, t, id) == <<prefix, t, id>>
PutBackup(bs, key, note, type, t) ==
  {b \in bs : b.backupId # key}
    \cup {[backupId |-> key, note |-> note, timestamp |-> t, type |-> type]}

createNoteBackup(bs, note, t) ==
  PutBackup(bs, BackupKey("backup", t, note.id), note, "edit_backup", t)

createDeletionBackup(bs, note, t) ==
  PutBackup(bs, BackupKey("deletion_backup", t, note.id), note,
            "deletion_backup", t)

\* performNoteDeletion: splice the first note with the id
performNoteDeletion(ns, id) == RemoveAt(ns, FindIndex(ns, id))

\* validateDeletionPermissions without the isProtected check
validateDeletionPermissionsAllowing(note) ==
  [canDelete |-> TRUE, reason |-> ""]

\* note.isProtected, undefined being falsy
validateDeletionPermissions(note) ==
  IF Has(note, "isProtected") /\ note.isProtected
    THEN [canDelete |-> FALSE, reason |-> "Note is protected from deletion"]
    ELSE [canDelete |-> TRUE, reason |-> ""]

-----------------------------------------------------------------------------
(* startNoteDeletionWorkflow(noteId) *)

StartDelete(p) ==
  \E id \in NoteIdArgs :
    Starts(p, [Idle EXCEPT !.pc = "load_note", !.op = "delete", !.noteId = id],
           "note_deletion")

DeleteLoadNote(p) ==
  /\ wf[p].pc = "load_note" /\ wf[p].op = "delete"
  /\ LET note == loadNoteForEditing(notes, wf[p].noteId)
     IN  IF note = NoNote
           THEN StepThrows(p, wf[p], "Note not found")
           ELSE StepDone(p, [wf[p] EXCEPT !.note = note], "load_note", "",
                         "validate_permissions")
  /\ UNCHANGED <<notes, backups, env>>

\* validateDeletionPermissions, then the throw when the note is protected
DeleteValidatePermissions(p) ==
  /\ wf[p].pc = "validate_permissions" /\ wf[p].op = "delete"
  /\ LET perm == validateDeletionPermissions(wf[p].note)
     IN  StepDone(p, wf[p], "validate_permissions",
                  IF perm.canDelete THEN ""
                  ELSE "Cannot delete note: Note is protected from deletion",
                  "user_confirmation")
  /\ UNCHANGED <<notes, backups, env>>

\* a confirmation step that throws when the user declines: the behaviour C3
\* must tell apart from the code's return of a result
UserConfirmationThrowing(p) ==
  /\ wf[p].pc = "user_confirmation"
  /\ \E userConfirmed \in BOOLEAN :
       IF userConfirmed
         THEN StepDone(p, wf[p], "user_confirmation", "", "create_backup")
         ELSE StepThrows(p, [wf[p] EXCEPT !.declined = TRUE],
                         "User cancelled deletion")
  /\ UNCHANGED <<notes, backups, env>>

\* confirmNoteDeletion: the user answers the prompt
UserConfirmation(p) ==
  /\ wf[p].pc = "user_confirmation"
  /\ \E userConfirmed \in BOOLEAN :
       IF userConfirmed
         THEN StepDone(p, wf[p], "user_confirmation", "", "create_backup")
         ELSE StepFinish(p, [wf[p] EXCEPT !.declined = TRUE],
                         "user_confirmation", "cancelled",
                         Resolved(FALSE, "User cancelled deletion", NoWorkflow))
  /\ UNCHANGED <<notes, backups, env>>

DeleteCreateBackup(p) ==
  /\ wf[p].pc = "create_backup" /\ wf[p].op = "delete"
  /\ \E o \in WriteOutcomes :
       IF o = "ok"
         THEN /\ backups' = createDeletionBackup(backups, wf[p].note, now)
              /\ StepDone(p, [wf[p] EXCEPT !.backupId =
                                BackupKey("deletion_backup", now, wf[p].note.id)],
                          "create_backup", "", "deletion")
         ELSE /\ backups' = backups
              /\ StepThrows(p, wf[p], "Backup write failed")
  /\ UNCHANGED <<notes, env>>

Deletion(p) ==
  /\ wf[p].pc = "deletion"
  /\ \E o \in WriteOutcomes :
       IF FindIndex(notes, wf[p].noteId) = 0
         THEN /\ notes' = notes
              /\ StepThrows(p, wf[p], "Note not found for deletion")
         ELSE IF o = "ok"
           THEN /\ notes' = performNoteDeletion(notes, wf[p].noteId)
                /\ StepDone(p, wf[p], "deletion", "", "post_deletion")
           ELSE /\ notes' = notes
                /\ StepThrows(p, wf[p], "Notes write failed")
  /\ UNCHANGED <<backups, env>>

\* handlePostDeletionActions (the toast, the statsUpdated event),
\* completeWorkflow('success'), return
PostDeletion(p) ==
  /\ wf[p].pc = "post_deletion"
  /\ Finish(p, wf[p], "success", Resolved(TRUE, "", currentWorkflow'))
  /\ UNCHANGED <<notes, backups, env>>

-----------------------------------------------------------------------------
(* startNoteEditingWorkflow(noteId) *)

StartEdit(p) ==
  \E id \in NoteIdArgs :
    Starts(p, [Idle EXCEPT !.pc = "load_note", !.op = "edit_start",
                           !.noteId = id],
           "note_editing")

EditLoadNote(p) ==
  /\ wf[p].pc = "load_note" /\ wf[p].op = "edit_start"
  /\ LET note == loadNoteForEditing(notes, wf[p].noteId)
     IN  IF note = NoNote
           THEN StepThrows(p, wf[p], "Note not found")
           ELSE StepDone(p, [wf[p] EXCEPT !.note = note], "load_note", "",
                         "validate_permissions")
  /\ UNCHANGED <<notes, backups, env>>

\* validateEditPermissions always allows the edit
EditValidatePermissions(p) ==
  /\ wf[p].pc = "validate_permissions" /\ wf[p].op = "edit_start"
  /\ StepDone(p, wf[p], "validate_permissions", "", "create_backup")
  /\ UNCHANGED <<notes, backups, env>>

\* createNoteBackup, completeWorkflow('editing_started'), return
EditCreateBackup(p) ==
  /\ wf[p].pc = "create_backup" /\ wf[p].op = "edit_start"
  /\ \E o \in WriteOutcomes :
       IF o = "ok"
         THEN /\ backups' = createNoteBackup(backups, wf[p].note, now)
              /\ StepFinish(p, [wf[p] EXCEPT !.backupId =
                                  BackupKey("backup", now, wf[p].note.id)],
                            "create_backup", "editing_started",
                            Resolved(TRUE, "", currentWorkflow'))
         ELSE /\ backups' = backups
              /\ StepThrows(p, wf[p], "Backup write failed")
  /\ UNCHANGED <<notes, env>>

-----------------------------------------------------------------------------
(* completeNoteEditingWorkflow(noteId, updatedData) *)

\* original.f !== updated.f, where a missing field reads as undefined
Differs(a, b, f) ==
  \/ Has(a, f) # Has(b, f)
  \/ Has(a, f) /\ Has(b, f) /\ a[f] # b[f]

\* !!original.audio !== !!updated.audio
AudioDiffers(a, b) == Falsy(a, "audio") # Falsy(b, "audio")

\* calculateNoteChanges(original, updated): the fields reported as changed,
\* in the order of the checks.  The tags are compared as JSON text, which
\* for arrays of strings is equal exactly when the arrays are.
calculateNoteChanges(original, updated) ==
     SelectSeq2(Differs(original, updated, "title"), [field |-> "title"])
  \o SelectSeq2(Differs(original, updated, "content"), [field |-> "content"])
  \o SelectSeq2(Differs(original, updated, "category"), [field |-> "category"])
  \o SelectSeq2(Differs(original, updated, "tags"), [field |-> "tags"])
  \o SelectSeq2(Differs(original, updated, "priority"), [field |-> "priority"])
  \o SelectSeq2(AudioDiffers(original, updated), [field |-> "audio"])

\* originalNote.editHistory || []
EditHistoryOf(n) == IF Has(n, "editHistory") THEN n.editHistory ELSE <<>>

\* { ...originalNote, ...updatedData, lastModified, editHistory }: the diff
\* of the history entry is taken between the original and updatedData
ApplyChanges(original, updated, t) ==
  Merge(Merge(original, updated),
        [lastModified |-> t,
         editHistory |-> Append(EditHistoryOf(original),
                                [timestamp |-> t,
                                 changes |-> calculateNoteChanges(original, updated)])])

\* the updatedData a caller passes in this model: every field of the form,
\* the three required fields only, and data that carries an id
FullData(title, content) ==
  [title |-> title, content |-> content, category |-> "personal",
   tags |-> <<>>, priority |-> "medium", audio |-> ""]

UpdatedDataArgs ==
  { FullData("renamed", "one"),
    FullData("first", "one"),
    [title |-> "renamed", content |-> "one", category |-> "personal"],
    [id |-> <<0, 2>>, title |-> "first", content |-> "one",
     category |-> "personal"] }

\* the workflow sets no this.currentWorkflow
StartEditComplete(p) ==
  /\ wf[p].pc = "idle"
  /\ invocations < MaxOps
  /\ \E id \in NoteIdArgs, d \in UpdatedDataArgs :
       wf' = [wf EXCEPT ![p] =
                [Idle EXCEPT !.pc = "edit_validate", !.op = "edit_complete",
                             !.inv = invocations + 1, !.noteId = id,
                             !.data = d, !.startNotes = notes]]
  /\ invocations' = invocations + 1
  /\ UNCHANGED <<notes, backups, currentWorkflow, workflowHistory, errorLog, now,
                 completed, templates, categories, lab>>

\* an error of the edit-complete workflow: its catch block only rethrows
EditThrows(p, err) == Ends(p, wf[p], Rejected(err))

\* steps 1 and 2: validateNoteData(updatedData), loadNoteForEditing(noteId)
EditCompleteValidate(p) ==
  /\ wf[p].pc = "edit_validate"
  /\ LET v == validateNoteData(wf[p].data, categories, notes, now)
         note == loadNoteForEditing(notes, wf[p].noteId)
     IN  IF ~v.isValid THEN EditThrows(p, "Validation failed")
         ELSE IF note = NoNote THEN EditThrows(p, "Note not found")
         ELSE /\ wf' = [wf EXCEPT ![p].pc = "edit_apply", ![p].note = note]
              /\ completed' = completed
  /\ UNCHANGED <<notes, backups, currentWorkflow, workflowHistory, env>>

\* steps 3 and 4: build the updated note, updateExistingNote(noteId, updatedNote)
EditCompleteApply(p) ==
  /\ wf[p].pc = "edit_apply"
  /\ \E o \in WriteOutcomes :
       LET updatedNote == ApplyChanges(wf[p].note, wf[p].data, now)
           noteIndex == FindIndex(notes, wf[p].noteId)
       IN  IF noteIndex = 0
             THEN /\ notes' = notes
                  /\ EditThrows(p, "Note not found for update")
             ELSE IF o = "ok"
               THEN /\ notes' = [notes EXCEPT ![noteIndex] = updatedNote]
                    /\ wf' = [wf EXCEPT ![p].pc = "edit_post",
                                        ![p].updatedNote = updatedNote]
                    /\ completed' = completed
               ELSE /\ notes' = notes
                    /\ EditThrows(p, "Notes write failed")
  /\ UNCHANGED <<backups, currentWorkflow, workflowHistory, env>>

\* step 5: handlePostUpdateActions (the toast), then the return
EditCompletePost(p) ==
  /\ wf[p].pc = "edit_post"
  /\ Ends(p, wf[p], Resolved(TRUE, "", NoWorkflow))
  /\ UNCHANGED <<notes, backups, currentWorkflow, workflowHistory, env>>

-----------------------------------------------------------------------------
(* startExportWorkflow(exportOptions) *)

ExportFormats == {"json", "xml"}

StartExport(p) ==
  \E f \in ExportFormats :
    Starts(p, [Idle EXCEPT !.pc = "prepare_data", !.op = "export",
                           !.opts = [templateId |-> "none",
                                     categoryId |-> "none", format |-> f]],
           "data_export")

\* prepareExportData; the collections of this model are far below
\* maxExportSize, so validateExportSize accepts
ExportPrepare(p) ==
  /\ wf[p].pc = "prepare_data"
  /\ StepDone(p, wf[p], "prepare_data", "", "validate_size")
  /\ UNCHANGED <<notes, backups, env>>

ExportValidateSize(p) ==
  /\ wf[p].pc = "validate_size"
  /\ StepDone(p, wf[p], "validate_size", "", "convert_format")
  /\ UNCHANGED <<notes, backups, env>>

\* dataManager.exportData throws for a format other than json, csv, txt
ExportConvert(p) ==
  /\ wf[p].pc = "convert_format"
  /\ IF wf[p].opts.format \in {"json", "csv", "txt"}
       THEN StepDone(p, wf[p], "convert_format", "", "download")
       ELSE StepThrows(p, wf[p], "Export failed: Unsupported export format")
  /\ UNCHANGED <<notes, backups, env>>

ExportDownload(p) ==
  /\ wf[p].pc = "download"
  /\ StepFinish(p, wf[p], "download", "success", Resolved(TRUE, "", NoWorkflow))
  /\ UNCHANGED <<notes, backups, env>>

-----------------------------------------------------------------------------
(* startImportWorkflow(file) *)

\* the files a caller may pass: of a type that is refused, unparsable, parsed
\* to data without a notes array, and parsed to two notes, the second one
\* without a title
ImportedNotes ==
  << InitialNotes[1], [content |-> "imported", category |-> "personal"] >>

ImportFiles ==
  { [valid |-> FALSE, parses |-> FALSE, hasNotes |-> FALSE, notes |-> <<>>],
    [valid |-> TRUE,  parses |-> FALSE, hasNotes |-> FALSE, notes |-> <<>>],
    [valid |-> TRUE,  parses |-> TRUE,  hasNotes |-> FALSE, notes |-> <<>>],
    [valid |-> TRUE,  parses |-> TRUE,  hasNotes |-> TRUE,
     notes |-> ImportedNotes] }

\* validateImportData: warnings are collected, isValid is never cleared
validateImportData(data) ==
  [isValid |-> TRUE,
   warnings |->
        SelectSeq2(~data.hasNotes, "No valid notes found in import data")
     \o SelectSeq2(\E i \in DOMAIN data.notes : Falsy(data.notes[i], "title"),
                   "Note missing title")
     \o SelectSeq2(\E i \in DOMAIN data.notes : Falsy(data.notes[i], "content"),
                   "Note missing content")]

\* performDataImport with the spread written last: the incoming note's own
\* id and dates win over the generated ones
performDataImportKeepingId(ns, data, t, rs) ==
  IF data.hasNotes
    THEN ns \o [i \in DOMAIN data.notes |->
                  Merge([id |-> generateNoteId(t, rs[i]), createdAt |-> t,
                         lastModified |-> t],
                        data.notes[i])]
    ELSE ns

\* performDataImport: every incoming note gets a generated id and the
\* current time and is pushed on the collection; rs are the random draws
performDataImport(ns, data, t, rs) ==
  IF data.hasNotes
    THEN ns \o [i \in DOMAIN data.notes |->
                  Merge(data.notes[i],
                        [id |-> generateNoteId(t, rs[i]), createdAt |-> t,
                         lastModified |-> t])]
    ELSE ns

\* the result object of performDataImport: imported is incremented once for
\* every incoming note, nothing is skipped and no push fails
importResult(data) ==
  [imported |-> IF data.hasNotes THEN Len(data.notes) ELSE 0,
   skipped |-> 0, errors |-> <<>>]

StartImport(p) ==
  \E f \in ImportFiles :
    Starts(p, [Idle EXCEPT !.pc = "validate_file", !.op = "import", !.file = f],
           "data_import")

ImportValidateFile(p) ==
  /\ wf[p].pc = "validate_file"
  /\ StepDone(p, wf[p], "validate_file",
              IF wf[p].file.valid THEN "" ELSE "Invalid file", "parse_file")
  /\ UNCHANGED <<notes, backups, env>>

ImportParseFile(p) ==
  /\ wf[p].pc = "parse_file"
  /\ IF wf[p].file.parses
       THEN StepDone(p, wf[p], "parse_file", "", "validate_data")
       ELSE StepThrows(p, wf[p], "Failed to parse file")
  /\ UNCHANGED <<notes, backups, env>>

\* validateImportData; the "Import Anyway" prompt is asked when the data is
\* not valid
ImportValidateData(p) ==
  /\ wf[p].pc = "validate_data"
  /\ StepDone(p, wf[p], "validate_data", "",
              IF validateImportData(wf[p].file).isValid
                THEN "preview" ELSE "import_anyway")
  /\ UNCHANGED <<notes, backups, env>>

\* showImportPreview: the user answers the prompt
ImportPreview(p) ==
  /\ wf[p].pc = "preview"
  /\ \E confirmed \in BOOLEAN :
       IF confirmed
         THEN StepDone(p, wf[p], "preview", "", "import")
         ELSE StepFinish(p, [wf[p] EXCEPT !.declined = TRUE], "preview",
                         "cancelled",
                         Resolved(FALSE, "User cancelled after preview",
                                  NoWorkflow))
  /\ UNCHANGED <<notes, backups, env>>

ImportPerform(p) ==
  /\ wf[p].pc = "import"
  /\ \E o \in WriteOutcomes, rs \in [DOMAIN wf[p].file.notes -> Rand] :
       IF o = "ok" \/ ~wf[p].file.hasNotes
         THEN /\ notes' = performDataImport(notes, wf[p].file, now, rs)
              /\ StepDone(p, wf[p], "import", "", "post_import")
         ELSE /\ notes' = notes
              /\ StepThrows(p, wf[p], "Notes write failed")
  /\ UNCHANGED <<backups, env>>

\* handlePostImportActions (the toasts), completeWorkflow('success'), return
ImportPost(p) ==
  /\ wf[p].pc = "post_import"
  /\ Finish(p, wf[p], "success",
            Merge(Resolved(TRUE, "", NoWorkflow), importResult(wf[p].file)))
  /\ UNCHANGED <<notes, backups, env>>

-----------------------------------------------------------------------------
(* The callers and the clock *)

\* The caller receives the workflow's result.  A rejection reaches
\* ErrorHandlingSystem.handleError, from the caller's catch block or from the
\* unhandledrejection listener, and handleError logs it; a resolved promise,
\* whatever its success flag, is not reported.
Settle(p) ==
  /\ wf[p].pc = "done"
  /\ errorLog' = IF wf[p].result.kind = "rejected"
                   THEN logError(errorLog, wf[p].result.reason)
                   ELSE errorLog
  /\ wf' = [wf EXCEPT ![p] = Idle]
  /\ UNCHANGED <<notes, backups, currentWorkflow, workflowHistory, now,
                 invocations, completed, templates, categories, lab>>

\* A workflow is suspended at a user prompt: the template or the category
\* choice when the dialog is shown, the delete confirmation, the import
\* preview.
TemplateAsked(w) ==
  /\ {t \in templates : t.id = w.opts.templateId} = {}
  /\ {t \in templates : t.isActive} # {}

CategoryAsked(w) ==
  /\ {c \in categories : c.id = w.opts.categoryId} = {}
  /\ Cardinality({c \in categories : c.isActive}) > 1

AtPrompt(p) ==
  \/ wf[p].pc = "template_selection" /\ TemplateAsked(wf[p])
  \/ wf[p].pc = "category_selection" /\ CategoryAsked(wf[p])
  \/ wf[p].pc \in {"user_confirmation", "preview"}

Running(p) == wf[p].pc # "idle" /\ ~AtPrompt(p)

\* The clock advances while no workflow is running its code: each one is
\* idle or waits for the user's answer to a prompt.
Tick ==
  /\ now < MaxNow
  /\ \A p \in Procs : ~Running(p)
  /\ now' = now + 1
  /\ UNCHANGED <<notes, backups, currentWorkflow, workflowHistory, errorLog, wf,
                 invocations, completed, templates, categories, lab>>

-----------------------------------------------------------------------------
(* Specifications *)

\* the configurations the data manager may have loaded: no template and a
\* single category, or the fallback templates and two categories
Configs ==
  { [templates |-> {}, categories |-> {Category("personal")}],
    [templates |-> FallbackTemplates,
     categories |-> {Category("personal"), Category("work")}] }

\* no function is being applied on its own
NoInput == [kind |-> "none"]
NoOutput == [kind |-> "none"]

\* the page script is not loaded: the manager is used on its own
NoIndex == 0
NoAnswer == [index |-> NoIndex, note |-> NoNote, confirmed |-> FALSE]
NoPage ==
  [loaded |-> FALSE, notes |-> <<>>, activeNoteIndex |-> NoIndex,
   editingNoteIndex |-> NoIndex, section |-> "none", prompts |-> <<>>,
   answer |-> NoAnswer, calls |-> 0]

\* new CustomModalSystem()
NoModal == 0
NewModalSystem ==
  [modals |-> <<>>, activeModal |-> NoModal, modalStack |-> <<>>,
   timeouts |-> {}]

\* the operation keys that callers report failures of
Operations == {"load", "sync"}

\* new ErrorHandlingSystem(modalSystem, toastSystem): no retry was counted
\* (an absent key of retryAttempts reads as 0), no handleError call waits
\* for its dialog, no retry timer is pending and no retry callback runs;
\* invoked counts the invocations of an operation's callback since its last
\* successful retry or clearErrorLog
NewErrorHandler ==
  [retryAttempts |-> [op \in Operations |-> 0],
   handling |-> <<>>, timers |-> <<>>, running |-> <<>>,
   invoked |-> [op \in Operations |-> 0],
   succeeded |-> "none", reports |-> 0]

\* null for the recorder, the stream and the recorded blob of an AudioManager
NoRecorder == 0

\* new AudioManager(): recorder, stream and recordedBlob are null.
\* recorders holds the state of every RecordRTC object made so far and calls
\* the startRecording / stopRecording calls made so far with their results
NewAudioManager ==
  [recorder |-> NoRecorder, stream |-> NoRecorder, isRecording |-> FALSE,
   recordedBlob |-> NoRecorder, recorders |-> <<>>, calls |-> <<>>]

InitObjects ==
  /\ modalSystem = NewModalSystem
  /\ errorHandler = NewErrorHandler
  /\ audioManager = NewAudioManager

InitStandalone == page = NoPage /\ InitObjects

\* the manager after construction and the stores as the page finds them
InitManager ==
  /\ backups = {}
  /\ currentWorkflow = NoWorkflow
  /\ workflowHistory = <<>>
  /\ errorLog = <<>>
  /\ wf = [p \in Procs |-> Idle]
  /\ invocations = 0
  /\ completed = <<>>
  /\ autoBackups = {}
  /\ autoWritten = {}

Init ==
  /\ InitManager
  /\ now = 0
  /\ notes = InitialNotes
  /\ input = NoInput
  /\ output = NoOutput
  /\ InitStandalone
  /\ \E c \in Configs : templates = c.templates /\ categories = c.categories

Step(p) ==
  \/ StartCreate(p) \/ TemplateSelection(p) \/ CategorySelection(p)
  \/ NoteCreation(p) \/ Validation(p) \/ Save(p) \/ PostCreation(p)
  \/ StartDelete(p) \/ DeleteLoadNote(p) \/ DeleteValidatePermissions(p)
  \/ UserConfirmation(p) \/ DeleteCreateBackup(p) \/ Deletion(p)
  \/ PostDeletion(p)
  \/ StartEdit(p) \/ EditLoadNote(p) \/ EditValidatePermissions(p)
  \/ EditCreateBackup(p)
  \/ StartEditComplete(p) \/ EditCompleteValidate(p) \/ EditCompleteApply(p)
  \/ EditCompletePost(p)
  \/ StartExport(p) \/ ExportPrepare(p) \/ ExportValidateSize(p)
  \/ ExportConvert(p) \/ ExportDownload(p)
  \/ StartImport(p) \/ ImportValidateFile(p) \/ ImportParseFile(p)
  \/ ImportValidateData(p) \/ ImportPreview(p) \/ ImportPerform(p)
  \/ ImportPost(p)
  \/ Settle(p)

\* one workflow at a time: a single caller, which starts a workflow only
\* after the previous one has returned
Next == Tick \/ Step(1)

Spec == Init /\ [][Next]_vars

\* overlapping workflows: a second caller may start a workflow while the
\* first one waits for the user's answer to a prompt; between two prompts a
\* workflow runs without the other one taking a step
NextConc ==
  \/ Tick
  \/ \E p \in Procs : (\A q \in Procs \ {p} : ~Running(q)) /\ Step(p)

SpecConc == Init /\ [][NextConc]_vars

-----------------------------------------------------------------------------
(* The JSON round trip: startExportWorkflow({format: 'json'}) in one        *)
(* browser and startImportWorkflow of the downloaded file in another one,   *)
(* whose collection is empty.  `input` is the exporting browser's           *)
(* collection, `output` the downloaded file, `notes` the importing          *)
(* browser's collection.                                                    *)

\* notes in an exported collection
MaxExported == 4
\* businessRules.data_export.maxExportSize (50 MB in the code) and the limit
\* of validateImportFile (10 MB in the code), scaled down; the unit is one
\* member of a note object in the text
maxExportSize == 39
maxImportSize == 26

\* the keys of a note object in the order its members are written
NoteKeys ==
  << "id", "title", "content", "category", "tags", "priority", "isPublic",
     "audio", "template", "createdAt", "lastModified", "isProtected",
     "editHistory" >>

\* JSON.stringify of a note: one member <<key, value>> for each own key, in
\* the object's key order.  The values of a stored note come from JSON.parse
\* and are written as they are.
stringifyNote(n) ==
  LET ks == SelectSeq(NoteKeys, LAMBDA k : k \in DOMAIN n)
  IN  [i \in DOMAIN ks |-> <<ks[i], n[ks[i]]>>]

\* JSON.parse of a note object: each key gets the value of its last member
parseNote(members) ==
  [k \in {members[i][1] : i \in DOMAIN members} |->
     LET last == CHOOSE i \in DOMAIN members :
                   /\ members[i][1] = k
                   /\ \A j \in DOMAIN members : members[j][1] = k => j <= i
     IN  members[last][2]]

\* prepareExportData: all notes (noteIds = null), the audio replaced by null
\* unless includeAudio
prepareExportData(ns, includeAudio) ==
  [notes |-> IF includeAudio THEN ns
             ELSE [i \in DOMAIN ns |-> Merge(ns[i], [audio |-> ""])]]

\* EnhancedDataManager.exportData(notes, 'json'): the text of the document
\* {exportInfo, notes, categories, metadata}
exportData(ns, cats) ==
  [exportInfo |-> [format |-> "json", totalNotes |-> Len(ns)],
   notes      |-> [i \in DOMAIN ns |-> stringifyNote(ns[i])],
   categories |-> cats,
   metadata   |-> [total |-> Len(ns)]]

RECURSIVE Members(_)
Members(lines) ==
  IF lines = <<>> THEN 0 ELSE Len(Head(lines)) + Members(Tail(lines))

\* the size of a text, Blob.size and File.size
SizeOf(text) == Members(text.notes)

\* validateExportSize measures the JSON text of the prepared data
validateExportSize(data) ==
  [isValid |-> SizeOf(exportData(data.notes, {})) <= maxExportSize]

\* downloadFile with the mime type of getExportMimeType('json')
DownloadedFile(text) ==
  [kind |-> "file", type |-> "application/json", size |-> SizeOf(text),
   content |-> text]

validateImportFile(file) ==
  [isValid |-> /\ file.size <= maxImportSize
               /\ file.type \in {"application/json", "text/plain", "text/csv"}]

\* parseImportFile of a JSON file: JSON.parse of its content
parseImportFile(file) ==
  [valid |-> TRUE, parses |-> TRUE, hasNotes |-> TRUE,
   notes |-> [i \in DOMAIN file.content.notes |->
                parseNote(file.content.notes[i])]]

\* the record a workflow that ran alone leaves in the history
RanWorkflow(type, steps, status, err) ==
  /\ currentWorkflow' = NoWorkflow
  /\ workflowHistory' =
       completeWorkflow([NewWorkflow(0, type) EXCEPT
                           !.steps = [i \in DOMAIN steps |->
                                        [step |-> steps[i], by |-> 0]]],
                        workflowHistory, status, err)

\* startExportWorkflow({format: 'json', includeAudio}) as a whole
RoundTripExport ==
  /\ input.kind = "collection"
  /\ output = NoOutput
  /\ \E includeAudio \in BOOLEAN :
       LET data == prepareExportData(input.notes, includeAudio)
       IN  IF validateExportSize(data).isValid
             THEN /\ output' = DownloadedFile(exportData(data.notes,
                                                         categories))
                  /\ RanWorkflow("data_export",
                                 << "prepare_data", "validate_size",
                                    "convert_format", "download" >>,
                                 "success", "none")
             ELSE /\ output' = [kind |-> "export_failed"]
                  /\ RanWorkflow("data_export",
                                 << "prepare_data", "validate_size" >>,
                                 "error", "Export too large")
  /\ UNCHANGED <<notes, backups, errorLog, now, wf, invocations, completed,
                 templates, categories, autoBackups, autoWritten, input, objects>>

\* startImportWorkflow(file) as a whole, of the downloaded file
RoundTripImport ==
  /\ output.kind = "file"
  /\ IF ~validateImportFile(output).isValid
       THEN /\ output' = [kind |-> "import_failed"]
            /\ notes' = notes
            /\ RanWorkflow("data_import", << "validate_file" >>, "error",
                           "Invalid file: File too large (max 10MB)")
       ELSE \E confirmed \in BOOLEAN,
               rs \in [DOMAIN output.content.notes -> Rand] :
              IF confirmed
                THEN /\ output' = [kind |-> "imported"]
                     /\ notes' = performDataImport(
                                   notes, parseImportFile(output), now, rs)
                     /\ RanWorkflow("data_import",
                                    << "validate_file", "parse_file",
                                       "validate_data", "preview",
                                       "import" >>, "success", "none")
                ELSE /\ output' = [kind |-> "import_cancelled"]
                     /\ notes' = notes
                     /\ RanWorkflow("data_import",
                                    << "validate_file", "parse_file",
                                       "validate_data", "preview" >>,
                                    "cancelled", "none")
  /\ UNCHANGED <<backups, errorLog, now, wf, invocations, completed,
                 templates, categories, autoBackups, autoWritten, input, objects>>

\* the collections of at most MaxExported notes made of the two initial notes
RECURSIVE Collections(_)
Collections(n) ==
  IF n = 0 THEN {<<>>}
  ELSE LET shorter == Collections(n - 1)
       IN  shorter \cup {Append(c, InitialNotes[i]) :
                           c \in shorter, i \in DOMAIN InitialNotes}

\* The exported notes were created at time 0; the import is confirmed by the
\* user in a dialog of the other browser, at a later time.
InitRoundTrip ==
  /\ InitManager
  /\ now = 1
  /\ notes = <<>>
  /\ \E c \in Collections(MaxExported) :
       input = [kind |-> "collection", notes |-> c]
  /\ output = NoOutput
  /\ InitStandalone
  /\ \E c \in Configs : templates = c.templates /\ categories = c.categories

NextRoundTrip == RoundTripExport \/ RoundTripImport

SpecRoundTrip == InitRoundTrip /\ [][NextRoundTrip]_vars

-----------------------------------------------------------------------------
(* validateNoteData applied to note data at the limits of the rules *)

\* the text of n characters "a"
RECURSIVE Rep(_)
Rep(n) ==
  IF n = 0 THEN ""
  ELSE IF n % 2 = 1 THEN "a" \o Rep(n - 1)
  ELSE LET half == Rep(n \div 2) IN half \o half

\* lengths and counts below, at and above a limit
Around(max) == {max - 1, max, max + 1}

\* the tag lists: none, or tagsMaxCount - 1 .. tagsMaxCount + 1 equal tags
\* of tagsMaxLength - 1 .. tagsMaxLength + 1 characters
TagLists ==
  {<<>>} \cup {[i \in 1..n |-> Rep(l)] :
                 n \in Around(tagsMaxCount), l \in Around(tagsMaxLength)}

NoteDataArgs ==
  [title    : {Rep(n) : n \in {1} \cup Around(titleMaxLength)},
   content  : {Rep(n) : n \in Around(contentMaxLength)},
   category : {"personal"},
   tags     : TagLists,
   priority : {"medium"}]

ValidateNote ==
  /\ input.kind = "noteData"
  /\ output = NoOutput
  /\ output' = [kind |-> "validation",
                v |-> validateNoteData(input.data, categories, notes, now)]
  /\ UNCHANGED <<notes, backups, currentWorkflow, workflowHistory, errorLog,
                 now, wf, invocations, completed, templates, categories,
                 autoBackups, autoWritten, input, objects>>

\* no note was created today: the daily limit does not interfere
InitValidate ==
  /\ InitManager
  /\ now = 0
  /\ notes = <<>>
  /\ \E d \in NoteDataArgs : input = [kind |-> "noteData", data |-> d]
  /\ output = NoOutput
  /\ InitStandalone
  /\ \E c \in Configs : templates = c.templates /\ categories = c.categories

SpecValidate == InitValidate /\ [][ValidateNote]_vars

-----------------------------------------------------------------------------
(* performAutoBackup with settings that enable features.backup.autoBackup *)

\* the clock of the auto-backups runs from 0 to MaxAutoNow
MaxAutoNow == 6
\* cleanOldBackups keeps the last 5 keys
AutoBackupsKept == 5

\* the keys that sort before k.  The keys are auto_backup_<Date.now()>; the
\* values of Date.now() have the same number of digits, so that the order
\* of the key strings is the order of the timestamps.
SortsBefore(keys, k) == {j \in keys : j < k}

\* cleanOldBackups with slice(AutoBackupsKept): the first keys are kept and
\* the later ones removed
cleanOldBackupsKeepingFirst(keys) ==
  IF Cardinality(keys) > AutoBackupsKept
    THEN {k \in keys : Cardinality(SortsBefore(keys, k)) < AutoBackupsKept}
    ELSE keys

\* cleanOldBackups: above AutoBackupsKept keys, the sorted keys but the last
\* AutoBackupsKept are removed
cleanOldBackups(keys) ==
  IF Cardinality(keys) > AutoBackupsKept
    THEN {k \in keys : Cardinality(SortsBefore(keys, k))
                         >= Cardinality(keys) - AutoBackupsKept}
    ELSE keys

\* performAutoBackup: nothing when the setting is off; otherwise the export
\* of the collection is stored under auto_backup_<now> and the old keys are
\* cleaned, unless the export or the write throws, which is only logged on
\* the console.  `output` records what the call did.
performAutoBackup ==
  /\ \E enabled \in BOOLEAN, o \in WriteOutcomes :
       LET written == enabled /\ o = "ok"
       IN  /\ autoBackups' = IF written
                               THEN cleanOldBackups(autoBackups \cup {now})
                               ELSE autoBackups
           /\ autoWritten' = IF written THEN autoWritten \cup {now}
                             ELSE autoWritten
           /\ output' = [kind |-> "auto_backup", enabled |-> enabled,
                         written |-> written, at |-> now]
  /\ UNCHANGED <<notes, backups, currentWorkflow, workflowHistory, errorLog,
                 now, wf, invocations, completed, templates, categories,
                 input, objects>>

AutoTick ==
  /\ now < MaxAutoNow
  /\ now' = now + 1
  /\ UNCHANGED <<notes, backups, currentWorkflow, workflowHistory, errorLog,
                 wf, invocations, completed, templates, categories, lab>>

NextAutoBackup == performAutoBackup \/ AutoTick

SpecAutoBackup == Init /\ [][NextAutoBackup]_vars

-----------------------------------------------------------------------------
(* EnhancedDataManager.exportToCSV.  A text is the sequence of its           *)
(* characters.                                                               *)

\* characters in a field of a note
MaxText == 1

Quote == "\""
Comma == ","
CsvChars == {"a", Quote, Comma}

RECURSIVE Texts(_)
Texts(n) ==
  IF n = 0 THEN {<<>>}
  ELSE LET shorter == Texts(n - 1)
       IN  shorter \cup {Append(t, c) : t \in shorter, c \in CsvChars}

\* s.replace(/"/g, '""')
RECURSIVE replaceQuotes(_)
replaceQuotes(s) ==
  IF s = <<>> THEN <<>>
  ELSE (IF Head(s) = Quote THEN <<Quote, Quote>> ELSE <<Head(s)>>)
         \o replaceQuotes(Tail(s))

\* `"${s}"`
Wrap(s) == <<Quote>> \o s \o <<Quote>>

\* parts.join(sep)
RECURSIVE Join(_, _)
Join(parts, sep) ==
  IF parts = <<>> THEN <<>>
  ELSE IF Len(parts) = 1 THEN Head(parts)
  ELSE Head(parts) \o sep \o Join(Tail(parts), sep)

\* the decimal digits of a number
RECURSIVE ToDigits(_)
ToDigits(n) ==
  LET digit == <<"0", "1", "2", "3", "4", "5", "6", "7", "8", "9">>[(n % 10) + 1]
  IN  IF n < 10 THEN <<digit>> ELSE Append(ToDigits(n \div 10), digit)

YesNo(b) == IF b THEN <<"Y", "e", "s">> ELSE <<"N", "o">>

\* one row of exportToCSV: the title and the content have their quotes
\* doubled, the other quoted fields are wrapped as they are
csvRow(note) ==
  Join(<< Wrap(note.id),
          Wrap(replaceQuotes(note.title)),
          Wrap(replaceQuotes(note.content)),
          Wrap(note.category),
          Wrap(IF note.priority = <<>> THEN <<"m", "e", "d", "i", "u", "m">>
               ELSE note.priority),
          Wrap(Join(note.tags, <<";", " ">>)),
          YesNo(note.audio # <<>>),
          YesNo(note.isPublic),
          Wrap(note.createdAt),
          Wrap(note.lastModified),
          ToDigits(Len(note.content)) >>,
       <<Comma>>)

CsvHeaders ==
  << <<"ID">>, <<"Title">>, <<"Content">>, <<"Category">>, <<"Priority">>,
     <<"Tags">>, <<"Has Audio">>, <<"Is Public">>, <<"Created Date">>,
     <<"Modified Date">>, <<"Character Count">> >>

\* exportToCSV: the lines of the text, the header line first
exportToCSV(ns) ==
  <<Join(CsvHeaders, <<Comma>>)>> \o [i \in DOMAIN ns |-> csvRow(ns[i])]

\* the notes exportToCSV is applied to
CsvNotes ==
  [id : {<<"n", "1">>}, title : Texts(MaxText), content : Texts(MaxText),
   category : Texts(MaxText), priority : {<<>>, <<"l", "o", "w">>},
   tags : {<<>>} \cup {<<t>> : t \in Texts(MaxText)}
                 \cup {<<t, <<"b">>>> : t \in Texts(MaxText)},
   audio : {<<>>}, isPublic : {FALSE},
   createdAt : {<<"d">>}, lastModified : {<<"d">>}]

ExportToCsv ==
  /\ input.kind = "csv_notes"
  /\ output = NoOutput
  /\ output' = [kind |-> "csv", lines |-> exportToCSV(input.notes)]
  /\ UNCHANGED <<notes, backups, currentWorkflow, workflowHistory, errorLog,
                 now, wf, invocations, completed, templates, categories,
                 autoBackups, autoWritten, input, objects>>

InitCsv ==
  /\ InitManager
  /\ now = 0
  /\ notes = <<>>
  /\ \E n \in CsvNotes : input = [kind |-> "csv_notes", notes |-> <<n>>]
  /\ output = NoOutput
  /\ InitStandalone
  /\ \E c \in Configs : templates = c.templates /\ categories = c.categories

SpecCsv == InitCsv /\ [][ExportToCsv]_vars

-----------------------------------------------------------------------------
(* ErrorHandlingSystem.categorizeError.  A message is the sequence of its    *)
(* words; "not allowed" counts as one word.                                  *)

\* words in an error message
MaxWords == 2

MessageWords ==
  { "fetch", "network", "connection", "storage", "quota", "permission",
    "denied", "not allowed", "audio", "microphone", "media", "file", "blob",
    "upload", "download", "validation", "invalid", "required",
    "QUOTA", "unexpected" }

ErrorNames ==
  { "Error", "NetworkError", "QuotaExceededError", "NotAllowedError",
    "MediaError" }

\* toLowerCase of a word or of an error name
toLowerCase(w) ==
  CASE w = "QUOTA" -> "quota"
    [] w = "Error" -> "error"
    [] w = "NetworkError" -> "networkerror"
    [] w = "QuotaExceededError" -> "quotaexceedederror"
    [] w = "NotAllowedError" -> "notallowederror"
    [] w = "MediaError" -> "mediaerror"
    [] OTHER -> w

\* text.includes(part), for a text given by its words
Includes(text, part) == \E i \in DOMAIN text : text[i] = part

\* the checks after the storage check: permission, audio, file, validation
LaterCategory(message, name, type) ==
  IF \/ Includes(message, "permission") \/ Includes(message, "denied")
     \/ Includes(message, "not allowed")
     \/ Includes(name, "notallowederror")
    THEN "PERMISSION"
  ELSE IF \/ Includes(message, "audio") \/ Includes(message, "microphone")
          \/ Includes(message, "media") \/ Includes(name, "mediaerror")
    THEN "AUDIO"
  ELSE IF \/ Includes(message, "file") \/ Includes(message, "blob")
          \/ Includes(message, "upload") \/ Includes(message, "download")
    THEN "FILE"
  ELSE IF \/ Includes(message, "validation") \/ Includes(message, "invalid")
          \/ Includes(message, "required") \/ type = "VALIDATION"
    THEN "VALIDATION"
  ELSE "UNKNOWN"

\* categorizeError with the storage check moved before the network check
categorizeErrorStorageFirst(error) ==
  LET message == [i \in DOMAIN error.message |-> toLowerCase(error.message[i])]
      name == <<toLowerCase(error.name)>>
  IN  IF \/ Includes(message, "storage") \/ Includes(message, "quota")
         \/ Includes(name, "quotaexceedederror")
        THEN "STORAGE"
      ELSE IF \/ Includes(message, "fetch") \/ Includes(message, "network")
              \/ Includes(message, "connection")
              \/ Includes(name, "networkerror")
        THEN "NETWORK"
      ELSE LaterCategory(message, name, error.type)

categorizeError(error) ==
  LET message == [i \in DOMAIN error.message |-> toLowerCase(error.message[i])]
      name == <<toLowerCase(error.name)>>
  IN  IF \/ Includes(message, "fetch") \/ Includes(message, "network")
         \/ Includes(message, "connection")
         \/ Includes(name, "networkerror")
        THEN "NETWORK"
      ELSE IF \/ Includes(message, "storage") \/ Includes(message, "quota")
              \/ Includes(name, "quotaexceedederror")
        THEN "STORAGE"
      ELSE LaterCategory(message, name, error.type)

RECURSIVE ErrorMessages(_)
ErrorMessages(n) ==
  IF n = 0 THEN {<<>>}
  ELSE LET shorter == ErrorMessages(n - 1)
       IN  shorter \cup {Append(m, w) : m \in shorter, w \in MessageWords}

\* the normalized errors categorizeError is applied to
ErrorArgs ==
  [message : ErrorMessages(MaxWords), name : ErrorNames,
   type : {"none", "VALIDATION"}, filename : {"app.js", "ui.js"}]

CategorizeError ==
  /\ input.kind = "error"
  /\ output = NoOutput
  /\ output' = [kind |-> "category", category |-> categorizeError(input.error)]
  /\ UNCHANGED <<notes, backups, currentWorkflow, workflowHistory, errorLog,
                 now, wf, invocations, completed, templates, categories,
                 autoBackups, autoWritten, input, objects>>

InitCategorize ==
  /\ InitManager
  /\ now = 0
  /\ notes = <<>>
  /\ \E e \in ErrorArgs : input = [kind |-> "error", error |-> e]
  /\ output = NoOutput
  /\ InitStandalone
  /\ \E c \in Configs : templates = c.templates /\ categories = c.categories

SpecCategorize == InitCategorize /\ [][CategorizeError]_vars

-----------------------------------------------------------------------------
(* Two calls of completeNoteEditingWorkflow made without awaiting the first: *)
(* each call runs up to its next await and the other call's continuation    *)
(* may run in between.                                                      *)

EditCall(p) ==
  \/ StartEditComplete(p) \/ EditCompleteValidate(p) \/ EditCompleteApply(p)
  \/ EditCompletePost(p) \/ Settle(p)

NextEdits == Tick \/ \E p \in Procs : EditCall(p)

SpecEdits == Init /\ [][NextEdits]_vars

-----------------------------------------------------------------------------
(* The page script: its notes array is read from localStorage once, when    *)
(* the application starts, and written back by saveNotes(); the indexes are *)
(* 1-based here, NoIndex is null.  A handler runs while no workflow is      *)
(* running its code.                                                        *)

\* page operations started in a session
MaxPageOps == 2
\* delete confirmations open at the same time
MaxPrompts == 2

\* loadNotes: the migration of a stored note to the current format
migrateNote(n) ==
  Merge([audio |-> "", tags |-> <<>>, priority |-> "medium",
         isPublic |-> FALSE, category |-> "personal"], n)

\* showSection(sectionId)
showSection(pg, id) ==
  [pg EXCEPT !.section = id,
             !.activeNoteIndex = IF id \in {"note-detail", "edit-note"}
                                   THEN @ ELSE NoIndex]

\* showNoteDetail(noteIndex)
showNoteDetail(pg, i) ==
  IF i \in DOMAIN pg.notes THEN showSection(pg, "note-detail") ELSE pg

\* exitEditMode()
exitEditMode(pg) ==
  LET cur == pg.editingNoteIndex
      left == [pg EXCEPT !.editingNoteIndex = NoIndex]
  IN  IF cur # NoIndex /\ cur \in DOMAIN pg.notes
        THEN showNoteDetail([left EXCEPT !.activeNoteIndex = cur], cur)
        ELSE showSection(left, "new-note")

\* the page once initializeApplication has run: the notes are loaded and the
\* first one is shown
LoadedPage(ns) ==
  LET pg == [NoPage EXCEPT !.loaded = TRUE,
                           !.notes = [i \in DOMAIN ns |-> migrateNote(ns[i])]]
  IN  IF ns # <<>>
        THEN showNoteDetail([pg EXCEPT !.activeNoteIndex = 1], 1)
        ELSE showSection(pg, "new-note")

\* what a handler of the page leaves alone
rest == <<modalSystem, errorHandler, audioManager>>
manager == <<backups, currentWorkflow, workflowHistory, errorLog, now, wf,
             invocations, completed, templates, categories, autoBackups,
             autoWritten, input, output>>

PageCall ==
  /\ page.calls < MaxPageOps
  /\ ~Running(1)

Called(pg) == [pg EXCEPT !.calls = @ + 1]

\* saveNotes(): localStorage.setItem("notes", JSON.stringify(notes))
saveNotes(pg, o) == IF o = "ok" THEN pg.notes ELSE notes

\* selectSidebarNote(noteIndex)
SelectSidebarNote ==
  /\ PageCall
  /\ \E i \in DOMAIN page.notes :
       page' = Called(showNoteDetail([page EXCEPT !.activeNoteIndex = i], i))
  /\ UNCHANGED <<notes, manager, rest>>

\* editNoteWithWorkflow(noteIndex)
EditNoteWithWorkflow ==
  /\ PageCall
  /\ \E i \in DOMAIN page.notes :
       page' = Called(showSection([page EXCEPT !.editingNoteIndex = i],
                                  "edit-note"))
  /\ UNCHANGED <<notes, manager, rest>>

\* the submit handler of the edit form: completeNoteEdit(editingNoteIndex,
\* updatedData); a failed save throws after the array was updated
CompleteNoteEdit ==
  /\ PageCall
  /\ page.editingNoteIndex \in DOMAIN page.notes
  /\ \E o \in WriteOutcomes :
       LET i == page.editingNoteIndex
           updatedNote == Merge(page.notes[i],
                                [title |-> "edited", content |-> "text",
                                 lastModified |-> now])
           pg == [page EXCEPT !.notes[i] = updatedNote]
       IN  /\ notes' = saveNotes(pg, o)
           /\ page' = Called(IF o = "ok"
                               THEN showNoteDetail(
                                      [exitEditMode(pg)
                                         EXCEPT !.activeNoteIndex = i], i)
                               ELSE pg)
  /\ UNCHANGED <<manager, rest>>

\* deleteNoteWithWorkflow(noteIndex) up to modalSystem.confirm
DeleteAsk ==
  /\ PageCall
  /\ Len(page.prompts) < MaxPrompts
  /\ \E i \in DOMAIN page.notes :
       page' = Called([page EXCEPT !.prompts =
                         Append(@, [index |-> i, note |-> page.notes[i]])])
  /\ UNCHANGED <<notes, manager, rest>>

\* the indexes after the splice at noteIndex
afterDelete(pg, noteIndex) ==
  LET edited ==
        IF pg.editingNoteIndex = noteIndex THEN exitEditMode(pg)
        ELSE IF pg.editingNoteIndex # NoIndex /\ pg.editingNoteIndex > noteIndex
          THEN [pg EXCEPT !.editingNoteIndex = @ - 1]
        ELSE pg
      shown ==
        IF edited.activeNoteIndex = noteIndex
          THEN [edited EXCEPT !.activeNoteIndex = NoIndex]
        ELSE IF edited.activeNoteIndex # NoIndex
                /\ edited.activeNoteIndex > noteIndex
          THEN [edited EXCEPT !.activeNoteIndex = @ - 1]
        ELSE edited
  IN  IF shown.section \in {"note-detail", "edit-note"}
        THEN showSection(shown, "new-note")
        ELSE shown

\* Array.prototype.splice(noteIndex, 1): nothing is removed past the end
splice(ns, i) == IF i \in DOMAIN ns THEN RemoveAt(ns, i) ELSE ns

\* deleteNoteWithWorkflow from the answer to the prompt on: a failed save
\* throws after the splice and the indexes are left as they were
DeleteAnswer ==
  /\ ~Running(1)
  /\ \E k \in DOMAIN page.prompts, confirmed \in BOOLEAN, o \in WriteOutcomes :
       LET asked == page.prompts[k]
           closed == [page EXCEPT !.prompts = RemoveAt(@, k),
                                  !.answer = [index |-> asked.index,
                                              note |-> asked.note,
                                              confirmed |-> confirmed]]
           spliced == [closed EXCEPT !.notes = splice(@, asked.index)]
       IN  IF confirmed
             THEN /\ notes' = saveNotes(spliced, o)
                  /\ page' = IF o = "ok" THEN afterDelete(spliced, asked.index)
                                         ELSE spliced
             ELSE /\ notes' = notes
                  /\ page' = closed
  /\ UNCHANGED <<manager, rest>>

\* the callback of startAutoSave
AutoSave ==
  /\ PageCall
  /\ page.notes # <<>>
  /\ \E o \in WriteOutcomes : notes' = saveNotes(page, o)
  /\ page' = Called(page)
  /\ UNCHANGED <<manager, rest>>

\* createNoteWithWorkflow once startNoteCreationWorkflow has settled: the
\* returned note is pushed on the array and the array is saved
CreateNoteReturned ==
  /\ wf[1].pc = "done" /\ wf[1].op = "create"
  /\ \E o \in WriteOutcomes :
       LET pushed == [page EXCEPT !.notes = Append(@, wf[1].note)]
           ok == wf[1].result.kind = "resolved" /\ wf[1].result.success
       IN  /\ notes' = IF ok THEN saveNotes(pushed, o) ELSE notes
           /\ page' = IF ~ok THEN page
                      ELSE IF o # "ok" THEN pushed
                      ELSE showNoteDetail(
                             [pushed EXCEPT !.activeNoteIndex = Len(pushed.notes)],
                             Len(pushed.notes))
           /\ errorLog' = IF wf[1].result.kind = "rejected"
                            THEN logError(errorLog, wf[1].result.reason)
                          ELSE IF ok /\ o # "ok"
                            THEN logError(errorLog, "Notes write failed")
                          ELSE errorLog
  /\ wf' = [wf EXCEPT ![1] = Idle]
  /\ UNCHANGED <<backups, currentWorkflow, workflowHistory, now, invocations,
                 completed, templates, categories, autoBackups, autoWritten,
                 input, output, rest>>

\* the workflows the page runs: createNoteWithWorkflow, and an import started
\* on the manager
PageWorkflow ==
  \/ StartCreate(1) \/ TemplateSelection(1) \/ CategorySelection(1)
  \/ NoteCreation(1) \/ Validation(1) \/ Save(1) \/ PostCreation(1)
  \/ StartImport(1) \/ ImportValidateFile(1) \/ ImportParseFile(1)
  \/ ImportValidateData(1) \/ ImportPreview(1) \/ ImportPerform(1)
  \/ ImportPost(1)
  \/ (wf[1].op # "create" /\ Settle(1))

\* the application starts after the stored notes were written; the
\* templates are the fallback ones and there is one category
InitPage ==
  /\ InitManager
  /\ now = 1
  /\ notes = InitialNotes
  /\ input = NoInput
  /\ output = NoOutput
  /\ templates = FallbackTemplates
  /\ categories = {Category("personal")}
  /\ page = LoadedPage(InitialNotes)
  /\ InitObjects

NextPage ==
  \/ PageWorkflow \/ CreateNoteReturned
  \/ SelectSidebarNote \/ EditNoteWithWorkflow \/ CompleteNoteEdit
  \/ DeleteAsk \/ DeleteAnswer \/ AutoSave

SpecPage == InitPage /\ [][NextPage]_vars

-----------------------------------------------------------------------------
(* CustomModalSystem: confirm() and showChoice() return a promise that the  *)
(* modal's onAction handler resolves; a modal is a record of modals, named  *)
(* by its place in that sequence.                                           *)

\* modals shown in a session
MaxModals == 2

\* what is left alone by the modal system
offModal == <<notes, manager, page, errorHandler, audioManager>>

\* a modal as showModal creates it: its element is in the document, its id
\* is a key of this.modals, the promise of its prompt is pending
NewModal(kind) ==
  [kind |-> kind, element |-> "shown", inMap |-> TRUE, promise |-> "pending",
   dismissed |-> FALSE, clicked |-> FALSE]

\* showModal(modalId, html, options)
showModal(ms, kind) ==
  [ms EXCEPT !.modalStack = IF ms.activeModal # NoModal
                              THEN Append(@, ms.activeModal) ELSE @,
             !.modals = Append(@, NewModal(kind)),
             !.activeModal = Len(ms.modals) + 1]

\* closeModal(modalId) with an id, closeModal() without: the element starts
\* its exit animation and its removal is scheduled 200 ms later
closeModal(ms, id) ==
  LET modalToClose ==
        IF id = NoModal THEN ms.activeModal
        ELSE IF ms.modals[id].inMap THEN id ELSE NoModal
  IN  IF modalToClose = NoModal THEN ms
      ELSE [ms EXCEPT !.modals[modalToClose].element =
                         IF @ = "removed" THEN @ ELSE "closing",
                      !.timeouts = @ \cup {[modal |-> modalToClose, id |-> id]}]

\* resolve(value): a promise is settled once
resolve(ms, i, value) ==
  [ms EXCEPT !.modals[i].promise = IF @ = "pending" THEN value ELSE @]

\* modalSystem.confirm(options)
Confirm ==
  /\ Len(modalSystem.modals) < MaxModals
  /\ modalSystem' = showModal(modalSystem, "confirm")
  /\ UNCHANGED offModal

\* modalSystem.showChoice(options)
ShowChoice ==
  /\ Len(modalSystem.modals) < MaxModals
  /\ modalSystem' = showModal(modalSystem, "choice")
  /\ UNCHANGED offModal

\* the data-action values of a modal's buttons and what onAction resolves
ModalActions(kind) ==
  IF kind = "confirm" THEN {"confirm", "cancel"} ELSE {"choice", "cancel"}

ActionValue(kind, action) ==
  IF kind = "confirm"
    THEN (IF action = "confirm" THEN "true" ELSE "false")
    ELSE (IF action = "choice" THEN "value" ELSE "null")

\* a click on a button of a modal whose element is in the document:
\* onAction closes the modal by its id and resolves the promise
ClickAction ==
  /\ \E i \in DOMAIN modalSystem.modals :
       /\ modalSystem.modals[i].element # "removed"
       /\ \E action \in ModalActions(modalSystem.modals[i].kind) :
            modalSystem' =
              resolve(closeModal([modalSystem EXCEPT !.modals[i].clicked = TRUE],
                                 i),
                      i, ActionValue(modalSystem.modals[i].kind, action))
  /\ UNCHANGED offModal

\* closeModal() of the keydown handler and of the overlay's click handler
Dismiss(ms) ==
  IF ms.activeModal = NoModal THEN ms
  ELSE closeModal([ms EXCEPT !.modals[ms.activeModal].dismissed = TRUE], NoModal)

\* the Escape key while a modal is active
EscapeKey ==
  /\ modalSystem.activeModal # NoModal
  /\ modalSystem' = Dismiss(modalSystem)
  /\ UNCHANGED offModal

\* a click on the overlay of a modal whose element is in the document
OverlayClick ==
  /\ \E i \in DOMAIN modalSystem.modals :
       modalSystem.modals[i].element # "removed"
  /\ modalSystem' = Dismiss(modalSystem)
  /\ UNCHANGED offModal

\* the setTimeout callback of closeModal
ModalTimeout ==
  /\ \E t \in modalSystem.timeouts :
       LET popped == IF modalSystem.modalStack = <<>> THEN NoModal
                     ELSE modalSystem.modalStack[Len(modalSystem.modalStack)]
           isActive == modalSystem.activeModal = t.modal
       IN  modalSystem' =
             [modalSystem EXCEPT
                !.timeouts = @ \ {t},
                !.modals[t.modal].element = "removed",
                !.modals[t.modal].inMap = IF t.id # NoModal THEN FALSE ELSE @,
                !.activeModal = IF isActive THEN popped ELSE @,
                !.modalStack = IF isActive /\ @ # <<>>
                                 THEN SubSeq(@, 1, Len(@) - 1) ELSE @]
  /\ UNCHANGED offModal

NextModal ==
  Confirm \/ ShowChoice \/ ClickAction \/ EscapeKey \/ OverlayClick
    \/ ModalTimeout

SpecModal == Init /\ [][NextModal]_vars

-----------------------------------------------------------------------------
(* ErrorHandlingSystem: handleError and attemptRetry.  A handleError call   *)
(* with a MODAL strategy waits for its dialog before it sets the retry      *)
(* timer; the retry callback is awaited.                                    *)

\* this.maxRetries
maxRetries == 3
\* failures reported and attemptRetry calls made from outside in a session
MaxReports == 2

ErrorCategories == {"NETWORK", "UNKNOWN"}

offErrors == <<notes, manager, page, modalSystem, audioManager>>

\* getRetryCount, incrementRetryCount, resetRetryCount
getRetryCount(eh, op) == eh.retryAttempts[op]
incrementRetryCount(eh, op) == [eh EXCEPT !.retryAttempts[op] = @ + 1]
resetRetryCount(eh, op) == [eh EXCEPT !.retryAttempts[op] = 0]

\* getHandlingStrategy: the fields of the strategy that the retries depend on
getHandlingStrategy(eh, op, category, userInitiated) ==
  [type |-> IF userInitiated THEN "MODAL" ELSE "TOAST",
   autoRetry |-> category = "NETWORK" /\ getRetryCount(eh, op) < maxRetries]

\* setTimeout(() => this.attemptRetry(error), strategy.retryDelay): the
\* timer keeps the context of the error; set is the retry count of the
\* operation when the timer is set
setRetryTimer(eh, op, userInitiated) ==
  [eh EXCEPT !.timers = Append(@, [op |-> op, userInitiated |-> userInitiated,
                                   set |-> getRetryCount(eh, op)])]

\* handleError(error, context) up to the end of executeErrorStrategy or to
\* the dialog of showModalError
handleError(eh, op, category, userInitiated) ==
  LET strategy == getHandlingStrategy(eh, op, category, userInitiated)
  IN  IF strategy.type = "MODAL"
        THEN [eh EXCEPT !.handling =
                Append(@, [op |-> op, userInitiated |-> userInitiated,
                           autoRetry |-> strategy.autoRetry])]
      ELSE IF strategy.autoRetry THEN setRetryTimer(eh, op, userInitiated)
      ELSE eh

Noted(eh) == [eh EXCEPT !.succeeded = "none"]

\* reportNetworkError(operation, error, retryCallback), or another caller of
\* handleError with the operation in the context
ReportError ==
  /\ errorHandler.reports < MaxReports
  /\ \E op \in Operations, category \in ErrorCategories, ui \in BOOLEAN :
       errorHandler' =
         handleError([Noted(errorHandler) EXCEPT !.reports = @ + 1],
                     op, category, ui)
  /\ UNCHANGED offErrors

\* the dialog of showModalError is closed: showChoice resolves to the
\* data-value of the clicked button, which is never 'retry' since the
\* choices carry an action and no value; the strategy computed before the
\* dialog then sets the timer
ErrorDialogClosed ==
  /\ \E k \in DOMAIN errorHandler.handling :
       LET h == errorHandler.handling[k]
           closed == [Noted(errorHandler) EXCEPT !.handling = RemoveAt(@, k)]
       IN  errorHandler' = IF h.autoRetry
                             THEN setRetryTimer(closed, h.op, h.userInitiated)
                             ELSE closed
  /\ UNCHANGED offErrors

\* attemptRetry(error) up to `await callback()`
attemptRetry(eh, op, userInitiated) ==
  LET counted == incrementRetryCount(eh, op)
  IN  IF getRetryCount(counted, op) > maxRetries THEN counted
      ELSE [counted EXCEPT !.running = Append(@, [op |-> op,
                                                 userInitiated |-> userInitiated]),
                           !.invoked[op] = @ + 1]

\* a retry timer fires
RetryTimer ==
  /\ \E k \in DOMAIN errorHandler.timers :
       LET t == errorHandler.timers[k]
       IN  errorHandler' =
             attemptRetry([Noted(errorHandler) EXCEPT !.timers = RemoveAt(@, k)],
                          t.op, t.userInitiated)
  /\ UNCHANGED offErrors

\* attemptRetry(error) called from outside the handler
AttemptRetry ==
  /\ errorHandler.reports < MaxReports
  /\ \E op \in Operations :
       errorHandler' =
         attemptRetry([Noted(errorHandler) EXCEPT !.reports = @ + 1], op, FALSE)
  /\ UNCHANGED offErrors

\* the retry callback settles: a success resets the count, a failure is
\* given to handleError with the context of the first error
RetryCallbackSettles ==
  /\ \E k \in DOMAIN errorHandler.running, ok \in BOOLEAN,
        category \in ErrorCategories :
       LET r == errorHandler.running[k]
           left == [Noted(errorHandler) EXCEPT !.running = RemoveAt(@, k)]
       IN  errorHandler' =
             IF ok
               THEN [resetRetryCount(left, r.op)
                       EXCEPT !.invoked[r.op] = 0, !.succeeded = r.op]
               ELSE handleError(left, r.op, category, r.userInitiated)
  /\ UNCHANGED offErrors

\* clearErrorLog()
ClearErrorLog ==
  /\ errorHandler' =
       [Noted(errorHandler) EXCEPT
          !.retryAttempts = [op \in Operations |-> 0],
          !.invoked = [op \in Operations |-> 0]]
  /\ errorLog' = <<>>
  /\ UNCHANGED <<notes, backups, currentWorkflow, workflowHistory, now, wf,
                 invocations, completed, templates, categories, autoBackups,
                 autoWritten, input, output, page, modalSystem, audioManager>>

NextRetry ==
  ReportError \/ ErrorDialogClosed \/ RetryTimer \/ AttemptRetry
    \/ RetryCallbackSettles \/ ClearErrorLog

SpecRetry == Init /\ [][NextRetry]_vars

-----------------------------------------------------------------------------
(* AudioManager: startRecording and stopRecording.  startRecording awaits   *)
(* initializeMicrophone when there is no stream yet; stopRecording resolves *)
(* in the callback of RecordRTC's stopRecording.                            *)

\* startRecording / stopRecording calls in a session
MaxAudioCalls == 3

offAudio == <<notes, manager, page, modalSystem, errorHandler>>

\* a recorder made by `new RecordRTC` that was started and not stopped
Active(am) == {i \in DOMAIN am.recorders : am.recorders[i] # "stopped"}
\* a startRecording call that awaits initializeMicrophone
Starting(am) == {k \in DOMAIN am.calls : am.calls[k].pc = "microphone"}

AudioCall(am, kind, pc, result) ==
  [kind |-> kind, pc |-> pc, result |-> result, recorder |-> am.recorder,
   busy |-> Active(am) # {} \/ Starting(am) # {},
   recording |-> Active(am) # {}]

\* this.recorder = new RecordRTC(this.stream, ...); this.recorder
\* .startRecording(); this.isRecording = true; this.recordedBlob = null
startRecorder(am) ==
  [am EXCEPT !.recorders = Append(@, "recording"),
             !.recorder = Len(am.recorders) + 1,
             !.isRecording = TRUE,
             !.recordedBlob = NoRecorder]

\* startRecording() up to its return or to `await this.initializeMicrophone()`
StartRecording ==
  /\ Len(audioManager.calls) < MaxAudioCalls
  /\ LET am == audioManager
         call(pc, result) == AudioCall(am, "start", pc, result)
     IN  audioManager' =
           IF am.isRecording
             THEN [am EXCEPT !.calls = Append(@, call("done", "false"))]
           ELSE IF am.stream = NoRecorder
             THEN [am EXCEPT !.calls = Append(@, call("microphone", "pending"))]
           ELSE [startRecorder(am)
                   EXCEPT !.calls = Append(@, call("done", "true"))]
  /\ UNCHANGED offAudio

\* getUserMedia settles: initializeMicrophone stores the stream and returns
\* true, or returns false; startRecording goes on after the await
MicrophoneAnswer ==
  /\ \E k \in Starting(audioManager), granted \in BOOLEAN :
       LET am == audioManager
           streamed == [am EXCEPT !.stream = k]
       IN  audioManager' =
             IF granted
               THEN [startRecorder(streamed)
                       EXCEPT !.calls[k].pc = "done", !.calls[k].result = "true"]
               ELSE [am EXCEPT !.calls[k].pc = "done",
                               !.calls[k].result = "false"]
  /\ UNCHANGED offAudio

\* stopRecording() up to this.recorder.stopRecording(callback)
StopRecording ==
  /\ Len(audioManager.calls) < MaxAudioCalls
  /\ LET am == audioManager
         call(pc, result) == AudioCall(am, "stop", pc, result)
     IN  audioManager' =
           IF ~am.isRecording \/ am.recorder = NoRecorder
             THEN [am EXCEPT !.calls = Append(@, call("done", "null"))]
             ELSE [am EXCEPT !.calls = Append(@, call("stopping", "pending")),
                             !.recorders[am.recorder] = "stopping"]
  /\ UNCHANGED offAudio

\* the callback of recorder.stopRecording: this.recordedBlob =
\* this.recorder.getBlob(); this.isRecording = false; resolve(recordedBlob)
StopCallback ==
  /\ \E k \in DOMAIN audioManager.calls :
       /\ audioManager.calls[k].pc = "stopping"
       /\ audioManager' =
            [audioManager EXCEPT
               !.recorders[audioManager.calls[k].recorder] = "stopped",
               !.recordedBlob = audioManager.recorder,
               !.isRecording = FALSE,
               !.calls[k].pc = "done", !.calls[k].result = "blob"]
  /\ UNCHANGED offAudio

NextAudio == StartRecording \/ MicrophoneAnswer \/ StopRecording \/ StopCallback

SpecAudio == Init /\ [][NextAudio]_vars

-----------------------------------------------------------------------------
(* Properties *)

\* the ids of a collection are pairwise distinct
UniqueIds(ns) == \A i, j \in DOMAIN ns : ns[i].id = ns[j].id => i = j

\* the record appended last to the history
LastRecord == workflowHistory[Len(workflowHistory)]

\* the invocation p has returned or thrown and its caller has not yet
\* received the outcome
Returned(p) == wf[p].pc = "done"
Threw(p) == Returned(p) /\ wf[p].result.kind = "rejected"
Succeeded(p) ==
  Returned(p) /\ wf[p].result.kind = "resolved" /\ wf[p].result.success

HasDeletionBackup(note) ==
  \E b \in backups : b.type = "deletion_backup" /\ b.note = note

\* C1 (backup before destroy): when the delete workflow returns success the
\* note id is no longer in the collection and the ledger holds a
\* deletion_backup entry whose snapshot is the note as loaded; the backup is
\* in the ledger before the note is removed.
C1_BackupBeforeDestroy ==
  \A p \in Procs :
    wf[p].op = "delete" =>
      /\ wf[p].pc \in {"deletion", "post_deletion"} => HasDeletionBackup(wf[p].note)
      /\ Succeeded(p) =>
           /\ wf[p].noteId \notin Ids(notes)
           /\ HasDeletionBackup(wf[p].note)

\* C2 (id uniqueness): after any sequence of create, import, edit-complete
\* and delete workflows the notes of the collection have pairwise distinct
\* ids.
C2_IdUniqueness == UniqueIds(notes)

\* the delete workflow of p has ended on the user's refusal to confirm
DeclinedDelete(p) == wf[p].op = "delete" /\ wf[p].declined /\ Returned(p)

\* C3 (cancel of a delete is not an error): when the user declines the
\* confirmation the call resolves with success false and the reason "User
\* cancelled deletion", the record appended to the history has the status
\* cancelled and no error, and the caller's receipt of the result adds
\* nothing to the error log.
C3_CancelledDeleteIsNoError ==
  /\ [](\A p \in Procs :
          DeclinedDelete(p) =>
            /\ wf[p].result.kind = "resolved"
            /\ ~wf[p].result.success
            /\ wf[p].result.reason = "User cancelled deletion"
            /\ workflowHistory # <<>>
            /\ LastRecord.owner = wf[p].inv
            /\ LastRecord.type = "note_deletion"
            /\ LastRecord.status = "cancelled"
            /\ LastRecord.error = "none")
  /\ [][\A p \in Procs :
          DeclinedDelete(p) /\ wf'[p].pc = "idle" => errorLog' = errorLog]_vars

\* C3: a delete workflow has ended on the user's refusal
C3_DeclinedDeleteReturned == \E p \in Procs : DeclinedDelete(p)

\* C4 (cancellation in every declinable step): when the user dismisses a
\* template choice, a category choice, a delete confirmation or an import
\* preview, the workflow resolves with success false and its record has the
\* status cancelled; it does not reject and its record is not an error.
C4_CancellationNeverThrows ==
  \A p \in Procs :
    Returned(p) /\ wf[p].declined =>
      /\ wf[p].result.kind = "resolved"
      /\ ~wf[p].result.success
      /\ workflowHistory # <<>>
      /\ LastRecord.owner = wf[p].inv
      /\ LastRecord.status = "cancelled"

\* C5 (error finalization): when a step of a create, edit-start,
\* edit-complete, delete, export or import workflow throws, a record of that
\* workflow with the status error and the error's message is the last of the
\* history when the error reaches the caller, and currentWorkflow is null.
C5_ErrorFinalization ==
  \A p \in Procs :
    Threw(p) =>
      /\ currentWorkflow = NoWorkflow
      /\ workflowHistory # <<>>
      /\ LastRecord.owner = wf[p].inv
      /\ LastRecord.status = "error"
      /\ LastRecord.error = wf[p].result.reason

\* C6 (atomic write-back): when a create or a delete workflow throws, the
\* collection is the one the workflow found when it started.
C6_AtomicWriteBack ==
  \A p \in Procs :
    Threw(p) /\ wf[p].op \in {"create", "delete"} => notes = wf[p].startNotes

\* the notes of ns created on the calendar day of t
CreatedToday(ns, t) ==
  {i \in DOMAIN ns : ns[i].createdAt \div TicksPerDay = t \div TicksPerDay}

\* the create workflow of p has run its validation step and nothing since
Validated(p) ==
  /\ wf[p].op = "create"
  /\ \/ wf[p].pc = "save"
     \/ Returned(p) /\ wf[p].result.reason = "Validation failed"

QuotaViolation(v) ==
  \E i \in DOMAIN v.businessRuleViolations :
    v.businessRuleViolations[i] = "Daily note limit reached"

\* C7 (daily quota): when the collection holds maxDailyNotes notes created
\* today, the validation of a create workflow reports the business rule
\* violation, the workflow throws and the collection is unchanged; with
\* fewer notes created today (none, once the day has advanced) the quota does
\* not block, and the validation passes exactly when the note data is valid.
C7_DailyQuota ==
  \A p \in Procs :
    Validated(p) =>
      LET n == Cardinality(CreatedToday(notes, now))
          v == wf[p].validation
      IN  /\ n >= maxDailyNotes =>
                /\ QuotaViolation(v)
                /\ ~v.isValid
                /\ Threw(p)
                /\ notes = wf[p].startNotes
          /\ n < maxDailyNotes =>
                /\ ~QuotaViolation(v)
                /\ v.isValid <=> (v.errors = <<>> /\ ~Blank(wf[p].note, "content"))
          /\ v.isValid <=> wf[p].pc = "save"

\* C7: a create workflow was stopped at its validation step on the day the
\* collection held maxDailyNotes notes, and after the day has advanced a
\* create workflow has succeeded
C7_BlockedThenCreated ==
  /\ now \div TicksPerDay > 0
  /\ errorLog = <<"Validation failed">>
  /\ \E p \in Procs : wf[p].op = "create" /\ Succeeded(p)
  /\ LastRecord.type = "note_creation"
  /\ LastRecord.status = "success"
  /\ Len(notes) = Len(InitialNotes) + 1

\* the merged note m differs from the original o in the title and in
\* nothing else but the bookkeeping of the edit
OnlyTitleDiffers(o, m) ==
  /\ o.title # m.title
  /\ DOMAIN o = DOMAIN m
  /\ \A f \in DOMAIN o \ {"title", "lastModified", "editHistory"} : o[f] = m[f]

\* m equals o in title, content, category, tags, priority and the presence
\* of audio
SameFields(o, m) ==
  /\ \A f \in {"title", "content", "category", "tags", "priority"} : o[f] = m[f]
  /\ (o.audio = "") = (m.audio = "")

\* C8 (diff computation): when the merged note of an edit-complete differs
\* from the original only in the title, the changes of the appended
\* editHistory entry are exactly one element with the field "title"; when it
\* equals the original in title, content, category, tags, priority and audio
\* presence, the changes are empty.
C8_DiffComputation ==
  \A p \in Procs :
    wf[p].op = "edit_complete" /\ wf[p].pc = "edit_post" =>
      LET o == wf[p].note
          m == wf[p].updatedNote
          changes == m.editHistory[Len(m.editHistory)].changes
      IN  /\ OnlyTitleDiffers(o, m) => changes = <<[field |-> "title"]>>
          /\ SameFields(o, m) => changes = <<>>

\* C9 (FIFO workflow history): the history holds one record per operation
\* that has ended, for the most recent MaxHistory of them, in the order
\* in which they ended, and never more than MaxHistory records.
C9_FifoWorkflowHistory ==
  LET n == Len(completed)
      k == IF n < MaxHistory THEN n ELSE MaxHistory
  IN  /\ Len(workflowHistory) = k
      /\ \A i \in 1..k : workflowHistory[i].owner = completed[n - k + i]

OwnSteps(w) == \A i \in DOMAIN w.steps : w.steps[i].by = w.owner

\* C10 (per-workflow record under interleaving): when a workflow starts
\* while another waits for the user, every record holds only the steps of
\* the workflow that created it, no workflow fails on the other's having
\* reset currentWorkflow, and each workflow that keeps a record has appended
\* it to the history when it ends.
C10_PerWorkflowRecord ==
  /\ OwnSteps(currentWorkflow)
  /\ \A i \in DOMAIN workflowHistory : OwnSteps(workflowHistory[i])
  /\ \A p \in Procs :
       Returned(p) /\ wf[p].op # "edit_complete" =>
         /\ wf[p].result.reason # "TypeError"
         /\ workflowHistory # <<>>
         /\ LastRecord.owner = wf[p].inv

-----------------------------------------------------------------------------
(* C11..C20 *)

\* the warnings validateImportData collected for the file a workflow imports
ImportWarnings(p) == validateImportData(wf[p].file).warnings

\* C11: Import warnings gate.  Whenever the validation of the parsed data
\* produced at least one warning, the import workflow leaves its
\* validate_data step only towards the "Import Anyway" confirmation: it
\* reaches neither the preview nor the import without that question, and no
\* note is persisted by the step.
C11_ImportWarningsGate ==
  [][\A p \in Procs :
       (/\ wf[p].op = "import"
        /\ wf[p].pc = "validate_data"
        /\ ImportWarnings(p) # <<>>
        /\ wf'[p].pc # wf[p].pc)
       => /\ wf'[p].pc = "import_anyway"
          /\ notes' = notes]_vars

\* C12: JSON round trip.  Once a collection was exported as json and the
\* downloaded text was handed to the import with the confirmation accepted,
\* the importing collection, empty before, holds the same number of notes in
\* the same order, each with the title, content, category, tags and priority
\* of the exported note and with an id other than that note's id.
RoundTripFields == {"title", "content", "category", "tags", "priority"}

\* the round trip was made: exported, and imported or refused by the import
RoundTripMade ==
  /\ input.kind = "collection"
  /\ output.kind \in {"imported", "import_failed"}

RoundTripPreserves ==
  /\ output.kind = "imported"
  /\ Len(notes) = Len(input.notes)
  /\ \A i \in DOMAIN notes :
       /\ \A f \in RoundTripFields : notes[i][f] = input.notes[i][f]
       /\ notes[i].id # input.notes[i].id

Messages(list) == {list[i] : i \in DOMAIN list}

\* C13: Validation boundary.  validateNoteData accepts a title of exactly
\* titleMaxLength characters and refuses one more with a title-length error;
\* it accepts a content of exactly contentMaxLength characters and refuses
\* one more with a content-length error; too many or too long tags add
\* warnings and never make isValid false.
C13_ValidationBoundary ==
  output.kind = "validation" =>
    LET d == input.data
        v == output.v
    IN  /\ Len(d.title) = titleMaxLength
             => "Title too long" \notin Messages(v.errors)
        /\ Len(d.title) = titleMaxLength + 1
             => "Title too long" \in Messages(v.errors) /\ ~v.isValid
        /\ Len(d.content) = contentMaxLength
             => "Content too long" \notin Messages(v.errors)
        /\ Len(d.content) = contentMaxLength + 1
             => "Content too long" \in Messages(v.errors) /\ ~v.isValid
        /\ (Len(d.title) <= titleMaxLength
              /\ Len(d.content) <= contentMaxLength) => v.isValid
        /\ Len(d.tags) > tagsMaxCount
             => "Too many tags" \in Messages(v.warnings)
        /\ (\E i \in DOMAIN d.tags : Len(d.tags[i]) > tagsMaxLength)
             => "Tag too long" \in Messages(v.warnings)

\* a title and a content of exactly the maximum, with eleven tags of
\* thirty-one characters, were validated and accepted with warnings
C13_AtTheLimitsAccepted ==
  /\ output.kind = "validation"
  /\ Len(input.data.title) = titleMaxLength
  /\ Len(input.data.content) = contentMaxLength
  /\ Len(input.data.tags) = tagsMaxCount + 1
  /\ Len(input.data.tags[1]) = tagsMaxLength + 1
  /\ output.v.isValid
  /\ Len(output.v.warnings) = tagsMaxCount + 2

\* the keys of the backup ledger
BackupKeys(bs) == {b.backupId : b \in bs}

\* C14: Backup ledger is append-only.  No step removes or overwrites an
\* entry of note_backups, and every createNoteBackup or createDeletionBackup
\* that returns has added exactly one entry under a key that was not in the
\* ledger, also when the same note is backed up twice at the same clock
\* value.
C14_BackupLedgerAppendOnly ==
  [][/\ backups \subseteq backups'
     /\ \A p \in Procs :
          (wf[p].pc = "create_backup" /\ wf'[p].backupId # <<>>)
          => /\ wf'[p].backupId \notin BackupKeys(backups)
             /\ Cardinality(backups') = Cardinality(backups) + 1]_vars

\* the n greatest elements of a set of timestamps, all of it if it has fewer
Greatest(ts, n) == {k \in ts : Cardinality({j \in ts : j > k}) < n}

\* C15: Auto-backup retention.  After a performAutoBackup that ran with
\* auto-backup enabled, the store holds at most 5 auto_backup keys, they are
\* the 5 with the greatest timestamps among all auto-backups ever written,
\* and the backup the call wrote is among them.
C15_AutoBackupRetention ==
  (output.kind = "auto_backup" /\ output.enabled)
  => /\ Cardinality(autoBackups) <= 5
     /\ autoBackups = Greatest(autoWritten, 5)
     /\ output.written => output.at \in autoBackups

\* a seventh auto-backup was written and five are kept
C15_SeventhBackupWritten ==
  /\ output.kind = "auto_backup"
  /\ output.written
  /\ Cardinality(autoWritten) = 7
  /\ Cardinality(autoBackups) = 5

\* The columns a reader of CSV finds in a line: outside quotes a comma ends
\* the column and a quote opens a quoted part; inside quotes two quotes are
\* one quote character and a single quote closes the quoted part.
RECURSIVE CsvColumns(_, _, _, _)
CsvColumns(line, i, quoted, column) ==
  IF i > Len(line) THEN <<column>>
  ELSE IF quoted
    THEN IF line[i] = Quote
           THEN IF i < Len(line) /\ line[i + 1] = Quote
                  THEN CsvColumns(line, i + 2, TRUE, Append(column, Quote))
                  ELSE CsvColumns(line, i + 1, FALSE, column)
           ELSE CsvColumns(line, i + 1, TRUE, Append(column, line[i]))
    ELSE IF line[i] = Comma
           THEN <<column>> \o CsvColumns(line, i + 1, FALSE, <<>>)
           ELSE IF line[i] = Quote
             THEN CsvColumns(line, i + 1, TRUE, column)
             ELSE CsvColumns(line, i + 1, FALSE, Append(column, line[i]))

\* C16: CSV escaping.  Every row of the CSV export reads back as exactly 11
\* columns, and the quoted text columns (id, title, content, category,
\* priority, tags, created and modified date) read back as the texts of the
\* note: each is wrapped in quotes with its quote characters doubled.
C16_CsvEscaping ==
  output.kind = "csv" =>
    \A i \in DOMAIN input.notes :
      LET note == input.notes[i]
          line == output.lines[i + 1]
          cols == CsvColumns(line, 1, FALSE, <<>>)
      IN  /\ Len(cols) = 11
          /\ cols[1] = note.id
          /\ cols[2] = note.title
          /\ cols[3] = note.content
          /\ cols[4] = note.category
          /\ cols[6] = Join(note.tags, <<";", " ">>)
          /\ cols[9] = note.createdAt
          /\ cols[10] = note.lastModified

\* the categories in the order of their checks, and the indicators of each:
\* words of the lower-cased message, lower-cased names, error types
CategoryOrder ==
  << [category |-> "NETWORK",
      words |-> {"fetch", "network", "connection"},
      names |-> {"networkerror"}, types |-> {}],
     [category |-> "STORAGE",
      words |-> {"storage", "quota"},
      names |-> {"quotaexceedederror"}, types |-> {}],
     [category |-> "PERMISSION",
      words |-> {"permission", "denied", "not allowed"},
      names |-> {"notallowederror"}, types |-> {}],
     [category |-> "AUDIO",
      words |-> {"audio", "microphone", "media"},
      names |-> {"mediaerror"}, types |-> {}],
     [category |-> "FILE",
      words |-> {"file", "blob", "upload", "download"},
      names |-> {}, types |-> {}],
     [category |-> "VALIDATION",
      words |-> {"validation", "invalid", "required"},
      names |-> {}, types |-> {"VALIDATION"}] >>

\* the indicator of the k-th category matches the error
IndicatorMatches(k, error) ==
  \/ \E i \in DOMAIN error.message :
       toLowerCase(error.message[i]) \in CategoryOrder[k].words
  \/ toLowerCase(error.name) \in CategoryOrder[k].names
  \/ error.type \in CategoryOrder[k].types

\* C17: Error category precedence.  categorizeError returns the first
\* category in the order Network, Storage, Permission, Audio, File,
\* Validation whose indicator matches the error's message, name or type,
\* whatever later categories match too, and Unknown when none matches;
\* nothing else of the error has a part in the result.
C17_CategoryPrecedence ==
  output.kind = "category" =>
    LET error == input.error
        matching == {k \in DOMAIN CategoryOrder : IndicatorMatches(k, error)}
    IN  IF matching = {}
          THEN output.category = "UNKNOWN"
          ELSE \E k \in matching :
                 /\ \A j \in matching : k <= j
                 /\ output.category = CategoryOrder[k].category

\* an error whose message matches storage and then network indicators was
\* categorized as a network error
C17_SeveralCategoriesMatched ==
  /\ output.kind = "category"
  /\ input.error.message = <<"QUOTA", "network">>
  /\ input.error.name = "MediaError"
  /\ output.category = "NETWORK"

\* the fixed sequence of logged steps of each type of workflow
StepSequence(type) ==
  CASE type = "note_creation" ->
         << "template_selection", "category_selection", "note_creation",
            "validation", "save" >>
    [] type = "note_deletion" ->
         << "load_note", "validate_permissions", "user_confirmation",
            "create_backup", "deletion" >>
    [] type = "note_editing" ->
         << "load_note", "validate_permissions", "create_backup" >>
    [] type = "data_export" ->
         << "prepare_data", "validate_size", "convert_format", "download" >>
    [] type = "data_import" ->
         << "validate_file", "parse_file", "validate_data", "preview",
            "import" >>

StepNames(r) == [k \in DOMAIN r.steps |-> r.steps[k].step]

\* the logged steps of a record are the first ones of its type's sequence
InStepOrder(r) ==
  /\ Len(r.steps) <= Len(StepSequence(r.type))
  /\ StepNames(r) = SubSeq(StepSequence(r.type), 1, Len(r.steps))

\* a step of the invocation has failed: the note to delete is missing or
\* protected, the created note is not valid, the file to import is refused
\* or does not parse
StepFailed(w) ==
  \/ w.op = "delete" /\ w.pc \notin {"load_note"} /\ w.note = NoNote
  \/ w.op = "delete" /\ w.pc \notin {"load_note", "validate_permissions"}
       /\ Has(w.note, "isProtected") /\ w.note.isProtected
  \/ w.op = "create" /\ ~w.validation.isValid
  \/ w.op = "import" /\ w.pc # "validate_file" /\ ~w.file.valid
  \/ w.op = "import" /\ w.pc \notin {"validate_file", "parse_file"}
       /\ ~w.file.parses

\* C18: Strict step order with fail-fast.  The logged steps of every
\* workflow record, finished or current, are a prefix of the fixed step
\* sequence of its type, and a running workflow is about to run the step that
\* follows the logged ones; once a step has failed the workflow has ended,
\* no later step is run or logged, and its record has the status error with
\* the message of the error that was thrown.
C18_StrictStepOrder ==
  /\ \A i \in DOMAIN workflowHistory : InStepOrder(workflowHistory[i])
  /\ currentWorkflow # NoWorkflow =>
       /\ InStepOrder(currentWorkflow)
       /\ \A p \in Procs :
            (wf[p].inv = currentWorkflow.owner
               /\ Len(currentWorkflow.steps) < Len(StepSequence(currentWorkflow.type)))
            => wf[p].pc = StepSequence(currentWorkflow.type)
                            [Len(currentWorkflow.steps) + 1]
  /\ \A p \in Procs :
       StepFailed(wf[p]) =>
         /\ Threw(p)
         /\ LastRecord.owner = wf[p].inv
         /\ LastRecord.status = "error"
         /\ LastRecord.error = wf[p].result.reason
         /\ LastRecord.error # "none"

\* a delete workflow of a protected note has ended at its second step
C18_ProtectedDeleteStopped ==
  /\ wf[1].op = "delete"
  /\ Threw(1)
  /\ wf[1].note # NoNote
  /\ wf[1].note.isProtected
  /\ StepNames(LastRecord) = << "load_note", "validate_permissions" >>
  /\ LastRecord.status = "error"

\* the record has an error field: completeWorkflow was given an error
HasErrorField(r) == r.error # "none"

\* C19: Workflow status domain.  Every record of workflowHistory has a
\* status among success, error and cancelled, and has an error field exactly
\* when its status is error.
C19_StatusDomain ==
  \A i \in DOMAIN workflowHistory :
    /\ workflowHistory[i].status \in {"success", "error", "cancelled"}
    /\ HasErrorField(workflowHistory[i]) <=> workflowHistory[i].status = "error"

\* C19 as amended: the same with editing_started, the status of a finished
\* startNoteEditingWorkflow, among the statuses.
C19_StatusDomainWithEditingStarted ==
  \A i \in DOMAIN workflowHistory :
    /\ workflowHistory[i].status
         \in {"success", "error", "cancelled", "editing_started"}
    /\ HasErrorField(workflowHistory[i]) <=> workflowHistory[i].status = "error"

\* an edit-start workflow has finished after a workflow that threw: its
\* record, with no error field, is the last of the history
C19_EditingStartedRecorded ==
  /\ workflowHistory # <<>>
  /\ LastRecord.type = "note_editing"
  /\ LastRecord.status = "editing_started"
  /\ ~HasErrorField(LastRecord)
  /\ errorLog # <<>>

\* C20: Edit-complete is a replace-in-place.  When
\* completeNoteEditingWorkflow(noteId, data) has succeeded, the collection
\* has the length and the order it had, every note but the edited one is
\* unchanged, and the edited note has the id and the createdAt it had, the
\* edit history it had with one entry appended, and a lastModified that is
\* not earlier; when noteId is not in the collection the operation has
\* failed and the collection is unchanged.
C20_EditReplacesInPlace ==
  \A p \in Procs :
    (wf[p].op = "edit_complete" /\ Returned(p)) =>
      LET before == wf[p].startNotes
          k == FindIndex(before, wf[p].noteId)
      IN  /\ k = 0 => Threw(p) /\ notes = before
          /\ Succeeded(p) =>
               /\ k # 0
               /\ Len(notes) = Len(before)
               /\ \A j \in DOMAIN before : j # k => notes[j] = before[j]
               /\ notes[k].id = before[k].id
               /\ notes[k].createdAt = before[k].createdAt
               /\ Len(notes[k].editHistory) = Len(EditHistoryOf(before[k])) + 1
               /\ SubSeq(notes[k].editHistory, 1, Len(EditHistoryOf(before[k])))
                    = EditHistoryOf(before[k])
               /\ notes[k].lastModified >= before[k].lastModified

-----------------------------------------------------------------------------
(* C21..C30 *)

\* the fields of an incoming note that the import does not generate
CarriedOver(n) == [f \in (DOMAIN n) \ {"id", "createdAt", "lastModified"} |-> n[f]]

\* the notes of the file an import workflow parsed
Parsed(p) == IF wf[p].file.hasNotes THEN wf[p].file.notes ELSE <<>>

\* the collection is the one the import started from, followed by one note
\* for every parsed note, in the order of the file and with its fields
AppendedInOrder(p) ==
  /\ Len(notes) = Len(wf[p].startNotes) + Len(Parsed(p))
  /\ SubSeq(notes, 1, Len(wf[p].startNotes)) = wf[p].startNotes
  /\ \A i \in DOMAIN Parsed(p) :
        CarriedOver(notes[Len(wf[p].startNotes) + i]) = CarriedOver(Parsed(p)[i])

\* every appended note has an id that is neither its source's id nor the id
\* of another note of the collection
FreshIds(p) ==
  \A i \in DOMAIN Parsed(p) :
    LET at == Len(wf[p].startNotes) + i
    IN  /\ Has(Parsed(p)[i], "id") => notes[at].id # Parsed(p)[i].id
        /\ \A j \in DOMAIN notes : notes[j].id = notes[at].id => j = at

\* C21: Import appends only.  When startImportWorkflow returns success the
\* collection is the one it started from followed by one note per parsed
\* note, in source order, each with an id different from its source id and
\* from every other id of the collection, and the result's imported count is
\* the number of parsed notes; when it ends cancelled or in error the
\* collection is the one it started from.
C21_ImportAppendsOnly ==
  (Returned(1) /\ wf[1].op = "import") =>
     IF Succeeded(1)
       THEN /\ AppendedInOrder(1)
            /\ FreshIds(1)
            /\ wf[1].result.imported = Len(Parsed(1))
       ELSE notes = wf[1].startNotes

\* the delete invocation p has loaded a note flagged isProtected
DeletesProtected(p) ==
  /\ wf[p].op = "delete"
  /\ wf[p].note # NoNote
  /\ Has(wf[p].note, "isProtected") /\ wf[p].note.isProtected

\* C22: Protected notes cannot be deleted.  A delete workflow of a note
\* flagged isProtected never reaches the confirmation prompt nor a later
\* step; it ends by throwing an error that carries the reason "Note is
\* protected from deletion", its record logs no user_confirmation step, the
\* ledger holds no deletion backup of the note and the persisted collection
\* is the one the workflow started from.
C22_ProtectedNotDeleted ==
  DeletesProtected(1) =>
    /\ wf[1].pc \in {"validate_permissions", "done"}
    /\ notes = wf[1].startNotes
    /\ ~HasDeletionBackup(wf[1].note)
    /\ Returned(1) =>
          /\ Threw(1)
          /\ wf[1].result.reason =
                "Cannot delete note: Note is protected from deletion"
          /\ \A k \in DOMAIN LastRecord.steps :
                LastRecord.steps[k].step # "user_confirmation"

\* the delete of the protected note has been refused after an earlier
\* workflow of the session
C22_ProtectedDeleteRefused ==
  /\ DeletesProtected(1)
  /\ Threw(1)
  /\ wf[1].inv = 2
  /\ LastRecord.type = "note_deletion"

\* h is an initial part of g
IsPrefix(h, g) == Len(h) <= Len(g) /\ SubSeq(g, 1, Len(h)) = h

\* both calls are edits of the same note and both have returned success
BothEdited ==
  /\ \A p \in Procs : Succeeded(p) /\ wf[p].op = "edit_complete"
  /\ wf[1].noteId = wf[2].noteId

\* the collection the first of the two calls started from, and the place
\* of the edited note in it
FirstStart == IF wf[1].inv < wf[2].inv THEN wf[1].startNotes ELSE wf[2].startNotes
EditedAt == FindIndex(FirstStart, wf[1].noteId)

\* the persisted note is the one q wrote, and every field p gave that q did
\* not give has p's value
KeepsEarlierEdit(p, q) ==
  notes[EditedAt] = wf[q].updatedNote =>
    \A f \in (DOMAIN wf[p].data) \ (DOMAIN wf[q].data) :
      notes[EditedAt][f] = wf[p].data[f]

NoLostEdit ==
  BothEdited =>
    /\ Len(EditHistoryOf(notes[EditedAt]))
         = Len(EditHistoryOf(FirstStart[EditedAt])) + 2
    /\ KeepsEarlierEdit(1, 2) \/ KeepsEarlierEdit(2, 1)

\* C23: No lost edit under interleaving.  When two interleaved
\* completeNoteEditingWorkflow calls on the same note have both succeeded,
\* the persisted note's editHistory is two entries longer than before and
\* the fields given by the edit written first and not by the second have the
\* first edit's values; and no step makes the editHistory of a persisted
\* note shorter or replaces one of its entries.
C23_NoLostEdit ==
  [][ /\ NoLostEdit'
      /\ \A i \in DOMAIN notes :
            IsPrefix(EditHistoryOf(notes[i]), EditHistoryOf(notes'[i])) ]_vars

\* the step answers a delete confirmation with "Delete"
DeleteConfirmed ==
  Len(page'.prompts) < Len(page.prompts) /\ page'.answer.confirmed

\* the note was stored by a workflow of the manager, not found at the start
WrittenByWorkflow(n) == n.id \notin Ids(InitialNotes)

\* C24: Persisted notes survive UI saves.  A note that a create or import
\* workflow wrote to the persisted collection leaves the persisted
\* collection only in a step that answers "Delete" to the confirmation naming
\* that note; no other step of the page, saveNotes() of the auto-save
\* included, removes it.
C24_PersistedNotesSurvive ==
  [][ \A i \in DOMAIN notes :
        (WrittenByWorkflow(notes[i]) /\ notes[i].id \notin Ids(notes'))
          => (DeleteConfirmed /\ page'.answer.note.id = notes[i].id) ]_vars

\* the index field f of the page is null after the step, or a valid index
\* of the same note as before it
IndexKept(f) ==
  \/ page'[f] = NoIndex
  \/ /\ page'[f] \in DOMAIN page'.notes
     /\ page[f] \in DOMAIN page.notes
     /\ page'.notes[page'[f]] = page.notes[page[f]]

\* C25: Confirmed delete removes the named note.  A step that answers
\* "Delete" to a confirmation removes from the notes array exactly one note,
\* the one that was at the given index when the confirmation was asked,
\* whatever completed while the prompt was open, and leaves activeNoteIndex
\* and editingNoteIndex null or valid indexes of the notes they referred to.
C25_DeleteRemovesNamedNote ==
  [][ DeleteConfirmed =>
        /\ \E j \in DOMAIN page.notes :
              /\ page.notes[j].id = page'.answer.note.id
              /\ page'.notes = RemoveAt(page.notes, j)
        /\ IndexKept("activeNoteIndex")
        /\ IndexKept("editingNoteIndex") ]_vars

\* C26: Every prompt yields a decision.  Once the element of a confirm()
\* or showChoice() modal has been removed from the document, whichever way
\* the modal was closed, its promise is resolved, and when it was dismissed
\* with no button clicked the promise is resolved to false (confirm) or
\* null (choice): a workflow waiting on the prompt goes on.
C26_PromptYieldsDecision ==
  \A i \in DOMAIN modalSystem.modals :
    LET m == modalSystem.modals[i]
    IN  m.element = "removed" =>
          /\ m.promise # "pending"
          /\ (m.dismissed /\ ~m.clicked) =>
                m.promise = ActionValue(m.kind, "cancel")

\* the create workflow p has ended after both selections were made, and
\* neither the daily quota nor a failed write of the store stopped it
CreateSettled(p) ==
  /\ Returned(p) /\ wf[p].op = "create"
  /\ wf[p].cat # NoCategory
  /\ ~QuotaReached(wf[p].startNotes, now)
  /\ wf[p].result.reason
       \notin {"Failed to save note", "Post-creation action failed"}

\* the template selection yielded no template or one with empty content
BlankSeed(p) == wf[p].tmpl = NoTemplate \/ wf[p].tmpl.content = ""

\* the workflow has the status success and one note more is persisted
CreatedOne(p) ==
  /\ Succeeded(p)
  /\ LastRecord.status = "success"
  /\ Len(notes) = Len(wf[p].startNotes) + 1
  /\ SubSeq(notes, 1, Len(wf[p].startNotes)) = wf[p].startNotes

\* C27: Blank creation succeeds.  A create workflow whose category was
\* resolved and whose template selection yielded no template
\* (none_available) or the blank template runs to completion with the status
\* success and appends exactly one note to the persisted collection.
C27_BlankCreationSucceeds ==
  (CreateSettled(1) /\ BlankSeed(1)) => CreatedOne(1)

C29_SingleActiveRecording ==
  /\ Cardinality(Active(audioManager)) <= 1
  /\ \A k \in DOMAIN audioManager.calls :
        LET c == audioManager.calls[k]
        IN  /\ c.kind = "start" /\ c.busy => c.result \in {"pending", "false"}
            /\ c.kind = "stop" /\ c.pc = "done" =>
                  (c.result = "null" <=> ~c.recording)

\* C30: Result carries the workflow record.  When a create, edit-start or
\* delete workflow has returned success, the workflow field of its result is
\* not null and is the record just appended to workflowHistory, with its
\* status and its step log.
C30_ResultCarriesWorkflow ==
  \A p \in Procs :
    Succeeded(p) /\ wf[p].op \in {"create", "edit_start", "delete"} =>
      /\ wf[p].result.workflow # NoWorkflow
      /\ workflowHistory # <<>>
      /\ wf[p].result.workflow = LastRecord

=============================================================================
